---- MODULE Spec2Model ----
(***************************************************************************)
(* Run-control engine of pkg/proc/gdbserver.go (GdbserverProcess and      *)
(* GdbserverThread) against a debugger stub speaking the Gdb Remote Serial *)
(* Protocol.                                                               *)
(*                                                                         *)
(* The engine is single threaded: one operation runs at a time and pc      *)
(* holds its position.  RequestManualStop and Halt are the only calls      *)
(* made from another thread and may run at any position.  The stub and the *)
(* inferior are the environment: every command may be answered with an     *)
(* error, a stop reply may name any signal, and the inferior's threads     *)
(* come and go while it runs.  A thread's string id is modelled by its     *)
(* numeric id (the stub uses one spelling per thread).                     *)
(***************************************************************************)
EXTENDS Integers, FiniteSets, Sequences, TLC

\* ------------------------------------------------------------- bounds
MaxThreads == 2
MaxAddr == 1
\* commands the stub fails although it could have executed them
MaxFaults == 1
\* operations called on the engine
MaxCalls == 1
\* operations called on the engine when only the breakpoint table is used
MaxTableCalls == 3

Tids == 1..MaxThreads
Addrs == 0..MaxAddr
\* addresses a breakpoint is asked for: the instruction after each is modelled
BpAddrs == 0..(MaxAddr - 1)

\* ---------------------------------------------------------- constants
interruptSignal == 2
breakpointSignal == 5
childSignal == 17
stopSignal == 19
BreakpointSize == 1
MovLen == 9

\* nil pointer / zero value of an address-valued field
Nil == 0 - 1
\* an address outside the modelled code addresses: the scratch page holding
\* the MOV, or the address a thread is at after executing an injected MOV
Elsewhere == MaxAddr + MovLen + 1

\* every signal a stop reply can carry
AllSignals == 0..255
\* the signals the modelled stub reports: one the switch of ContinueOnce
\* always stops for, the two it stops for conditionally, one it forwards
Signals == {interruptSignal, breakpointSignal, childSignal, 11}

\* addresses inside runtime.futex and friends (gdbserverThreadBlocked)
BlockedAddrs == {MaxAddr}

UserBreakpoint == "User"
NextBreakpoint == "Next"

VARIABLES
    \* GdbserverProcess
    threads,            \* map[int]*GdbserverThread
    currentThread,      \* id of p.currentThread, Nil when nil
    selectedGoroutine,  \* p.selectedGoroutine
    detached,           \* the thread object selectedGoroutine.thread points to,
                        \* once it is no longer the object stored in threads
    exited,
    ctrlC,
    breakpoints,        \* map[uint64]*Breakpoint
    gcmdok,
    threadStopInfo,
    loadGInstrAddr,     \* TRUE when non-zero
    isDebugserver,      \* p.conn.isDebugserver
    breakpointIDCounter,
    internalBreakpointIDCounter,
    \* position of the running operation and its locals
    pc,
    op,
    iter,               \* threads a range loop has still to visit
    sig,                \* signal passed to the next resume
    tuSeen,             \* threadUpdater.seen
    tuDone,             \* threadUpdater.done
    threadID,           \* thread named by the last stop reply
    sent,               \* the operation has sent a packet
    ret,                \* what the last operation returned
    calls,              \* operations called so far
    \* stub and inferior
    alive,              \* the inferior exists
    live,               \* its threads
    spc,                \* the program counter of each thread
    traps,              \* addresses holding a software trap
    patched,            \* addresses whose code is overwritten by the MOV
    faults,             \* commands the stub has failed so far
    \* observations
    lastList,           \* most recent thread list given to the threadUpdater
    hadBp,              \* threads that had a current breakpoint at ContinueOnce
    stepped,            \* of those, the ones stepped with no trap at it
    requested,          \* a manual stop was requested while the operation
                        \* ran, and no stop reply with 0x2 was classified since
    before,             \* the tables and the traps when the operation began
    \* gdbRegisters
    bank,               \* the 64-bit registers of a thread, and what the
                        \* last Get was asked and returned
    \* gdbConn and BinaryInfo
    wire,               \* the packets sent to the stub, in order
    frame,              \* the locals of the function that is stepped through
    bi,                 \* p.bi: goos and the G-structure offset of its arch
    scratch             \* the bytes stored at loadGInstrAddr

engineVars == <<threads, currentThread, selectedGoroutine, detached, exited,
                ctrlC, breakpoints, gcmdok, threadStopInfo, loadGInstrAddr,
                isDebugserver, breakpointIDCounter,
                internalBreakpointIDCounter>>
ctlVars == <<pc, op, iter, sig, tuSeen, tuDone, threadID, sent, ret, calls>>
stubVars == <<alive, live, spc, traps, patched, faults>>
obsVars == <<lastList, hadBp, stepped, requested, before>>
sideVars == <<bank, wire, frame, bi, scratch>>
vars == <<engineVars, ctlVars, stubVars, obsVars, sideVars>>

\* what an operation finds when it is called: the thread table with each
\* thread's breakpoint state, the breakpoint table and the stub's traps
Snapshot ==
    [threads |-> [t \in DOMAIN threads |->
                    [CurrentBreakpoint |-> threads[t].CurrentBreakpoint,
                     BreakpointConditionMet |->
                         threads[t].BreakpointConditionMet]],
     breakpoints |-> breakpoints,
     traps |-> traps]

\* ------------------------------------------------------------ values
NewThread ==
    [CurrentBreakpoint |-> Nil, BreakpointConditionMet |-> FALSE,
     setbp |-> FALSE, PC |-> Nil]

NoG == [g |-> "nil", thread |-> Nil, PC |-> Nil]
BoundG(t) == [g |-> "bound", thread |-> t, PC |-> Nil]
ParkedG(a) == [g |-> "parked", thread |-> Nil, PC |-> a]

NoThreadObj == [t \in {} |-> NewThread]

NoRet ==
    [op |-> "", err |-> "", thread |-> Nil, sent |-> FALSE,
     wasExited |-> FALSE, exitReply |-> FALSE, addr |-> Nil]

Return(o, e, t, s, w, x) ==
    [op |-> o, err |-> e, thread |-> t, sent |-> s,
     wasExited |-> w, exitReply |-> x, addr |-> Nil]

\* what SetBreakpoint or ClearBreakpoint called for address a returns
ReturnAt(o, e, s, w, a) == [Return(o, e, Nil, s, w, FALSE) EXCEPT !.addr = a]

\* the stub keeps no program counter for a thread that is gone
NormPC(f, L) == [t \in Tids |-> IF t \in L THEN f[t] ELSE 0]

\* ------------------------------------------------------ gdbRegisters
\* A 64-bit value is four 16-bit words, the most significant first.
Zero64 == <<0, 0, 0, 0>>
\* the words the registers are filled with
Words == {5, 50087}
Word64s == {<<a, b, c, d>> : a \in Words, b \in Words, c \in Words, d \in Words}

NoBank ==
    [regs |-> [rax |-> Zero64, r8 |-> Zero64], asked |-> "",
     got |-> Zero64, err |-> ""]

mask8 == 15
mask16 == 255
mask32 == 65535

\* regs.regs[name] read as a little-endian uint64, 0 for an unknown name
byName(name) ==
    IF name \in DOMAIN bank.regs THEN bank.regs[name] ELSE Zero64

\* v & m for a mask m = 2^k - 1 below 2^16
And(v, m) == <<0, 0, 0, v[4] % (m + 1)>>

\* v >> 8
Shr8(v) ==
    <<v[1] \div 256,
      (v[1] % 256) * 256 + (v[2] \div 256),
      (v[2] % 256) * 256 + (v[3] \div 256),
      (v[3] % 256) * 256 + (v[4] \div 256)>>

\* the x86asm registers asked for: every form of rax and of r8, and one
\* register Get does not know
RegNames == {"AL", "AH", "AX", "EAX", "RAX", "R8B", "R8W", "R8L", "R8", "X0"}

\* gdbRegisters.Get: [value, err]
Get(n) ==
    CASE n = "AL" -> [value |-> And(byName("rax"), mask8), err |-> ""]
      [] n = "AH" -> [value |-> And(Shr8(byName("rax")), mask8), err |-> ""]
      [] n = "R8B" -> [value |-> And(byName("r8"), mask8), err |-> ""]
      [] n = "AX" -> [value |-> And(byName("rax"), mask16), err |-> ""]
      [] n = "R8W" -> [value |-> And(byName("r8"), mask16), err |-> ""]
      [] n = "EAX" -> [value |-> And(byName("rax"), mask32), err |-> ""]
      [] n = "R8L" -> [value |-> And(byName("r8"), mask32), err |-> ""]
      [] n = "RAX" -> [value |-> byName("rax"), err |-> ""]
      [] n = "R8" -> [value |-> byName("r8"), err |-> ""]
      [] OTHER -> [value |-> Zero64, err |-> "UnknownRegisterError"]

\* ------------------------------------------------------- loadGInstr
\* G-structure offsets, as 64-bit values
Minus8 == <<65535, 65535, 65535, 65528>>
Minus16 == <<65535, 65535, 65535, 65520>>
DarwinOffset == <<0, 0, 0, 2208>>

\* loadGInstr: the MOV for the OS and the G-structure offset of b, or a panic
loadGInstr(b) ==
    CASE b.goos = "linux" /\ b.gStructOffset \in {Minus8, Zero64} ->
           [panic |-> FALSE, bytes |-> <<100, 72, 139, 12, 37, 248, 255, 255, 255>>]
      [] b.goos = "linux" /\ b.gStructOffset = Minus16 ->
           [panic |-> FALSE, bytes |-> <<100, 72, 139, 12, 37, 240, 255, 255, 255>>]
      [] b.goos = "darwin" ->
           [panic |-> FALSE, bytes |-> <<101, 72, 139, 12, 37, 160, 8, 0, 0>>]
      [] OTHER -> [panic |-> TRUE, bytes |-> <<>>]

\* no function is being stepped through
NoFrame == [fn |-> ""]

\* a session on Linux whose packets are not recorded: the G-structure offset
\* is configured and nothing was stored in a scratch page
Untraced ==
    /\ wire = <<>>
    /\ frame = NoFrame
    /\ bi = [goos |-> "linux", gStructOffset |-> Minus8]
    /\ scratch = <<>>

\* ------------------------------------------------- stop classification
\* The switch of ContinueOnce: TRUE when the resume loop is left.
exitsLoop_childAlways(s, c, d) ==
    CASE s = interruptSignal -> c
      [] s = breakpointSignal -> TRUE
      [] s = childSignal -> TRUE
      [] s = stopSignal -> TRUE
      [] s \in {145, 146, 147, 148, 149, 150} -> TRUE
      [] OTHER -> FALSE

exitsLoop(s, c, d) ==
    CASE s = interruptSignal -> c
      [] s = breakpointSignal -> TRUE
      [] s = childSignal -> d
      [] s = stopSignal -> TRUE
      [] s \in {145, 146, 147, 148, 149, 150} -> TRUE
      [] OTHER -> FALSE

\* ------------------------------------------------------ threadUpdater
\* Add: every listed thread is marked seen (by the caller) and a thread
\* object is created for the ones the table does not hold.
Add_createsNothing(tbl, list) == tbl

Add(tbl, list) ==
    [t \in DOMAIN tbl \cup list |-> IF t \in DOMAIN tbl THEN tbl[t] ELSE NewThread]

\* Finish: the outcomes of the removal loop over the table, whose order is
\* the map's.  currentThread.ID is read for every unseen thread, also after
\* currentThread has been set to nil.
Finish(tbl, cur, seen, det) ==
    LET removed == DOMAIN tbl \ seen
        kept == [t \in DOMAIN tbl \cap seen |-> tbl[t]]
        sel == selectedGoroutine
        det2 == IF sel.g = "bound" /\ DOMAIN det = {} /\ sel.thread \in removed
                THEN [t \in {sel.thread} |-> tbl[t]]
                ELSE det
        lost == cur = Nil \/ cur \in removed
        picks == IF ~lost THEN {cur}
                 ELSE IF DOMAIN kept = {} THEN {Nil} ELSE DOMAIN kept
        derefsNil == removed # {}
                     /\ (cur = Nil \/ (cur \in removed /\ Cardinality(removed) >= 2))
        completes == removed = {} \/ cur # Nil
    IN  (IF completes
         THEN {[panic |-> FALSE, threads |-> kept, currentThread |-> c,
                detached |-> det2] : c \in picks}
         ELSE {})
        \cup
        (IF derefsNil
         THEN {[panic |-> TRUE, threads |-> kept, currentThread |-> Nil,
                detached |-> det2]}
         ELSE {})

\* ------------------------------------------------------------ the stub
\* conn.setBreakpoint / conn.clearBreakpoint can succeed only on a live inferior
CanBp == alive
\* a command addressed to a thread can succeed only if the thread exists
CanThread(tid) == alive /\ tid \in live
\* the stub may still fail n commands it could have executed
Fits(n) == faults + n <= MaxFaults

\* vCont;s:tid with the traps in trapsNow installed.  A thread standing on
\* a trap executes the trap and is reported at it or one byte past it;
\* otherwise it executes one instruction of the program.  A step can start
\* a thread; the reply may inline the thread list.
StubStep(tid, trapsNow) ==
    LET next == IF spc[tid] \in trapsNow
                THEN {spc[tid], spc[tid] + BreakpointSize} \cap Addrs
                ELSE Addrs
    IN  IF ~CanThread(tid)
        THEN {[res |-> "err", nf |-> 0, live |-> live, spc |-> spc, inline |-> FALSE]}
        ELSE {[res |-> "err", nf |-> 1, live |-> live, spc |-> spc, inline |-> FALSE],
              [res |-> "exit", nf |-> 0, live |-> live, spc |-> spc, inline |-> FALSE]}
             \cup
             {[res |-> "ok", nf |-> 0, live |-> live \cup N,
               spc |-> [t \in Tids |-> IF t = tid THEN a
                                       ELSE IF t \in N THEN na ELSE spc[t]],
               inline |-> b] :
                a \in next, N \in {{}} \cup {{n} : n \in Tids \ live},
                na \in Addrs, b \in BOOLEAN}

\* ------------------------------------------------- GdbserverThread
clearBreakpointState_keepsBp(th) ==
    [th EXCEPT !.setbp = FALSE, !.BreakpointConditionMet = FALSE]

clearBreakpointState(th) ==
    [th EXCEPT !.setbp = FALSE, !.CurrentBreakpoint = Nil,
               !.BreakpointConditionMet = FALSE]

\* the entry one trap past is probed before the entry at the address
FindBreakpoint_exactFirst(a) ==
    IF a \in DOMAIN breakpoints THEN a
    ELSE IF a - BreakpointSize \in DOMAIN breakpoints THEN a - BreakpointSize
    ELSE Nil

FindBreakpoint(a) ==
    IF a - BreakpointSize \in DOMAIN breakpoints THEN a - BreakpointSize
    ELSE IF a \in DOMAIN breakpoints THEN a
    ELSE Nil

\* What one call on a thread object leaves behind; nf counts the commands
\* the stub failed.
Outcome(e, x, pn, n, th, tb, cur, det, tr, al, lv, sp, cl) ==
    [err |-> e, exitReply |-> x, panic |-> pn, nf |-> n, th |-> th,
     threads |-> tb, currentThread |-> cur, detached |-> det, traps |-> tr,
     alive |-> al, live |-> lv, spc |-> sp, clean |-> cl]

\* The traps installed while stepInstruction steps thread object th: the
\* one under its PC is cleared first if the table has a breakpoint there.
trapsDuringStep_keepsTrap(th) == traps

trapsDuringStep(th) ==
    IF th.PC \in DOMAIN breakpoints THEN traps \ {th.PC} ELSE traps

\* stepInstruction(tu) on thread object th (id tid), with tu a fresh
\* threadUpdater: clear the trap under PC if the table has a breakpoint
\* there, step, and reinstall it in a deferred call whose error is dropped.
\* clean: the step ran with no trap at the thread's current breakpoint.
stepInstruction(th, tid, tbl, cur, det) ==
    IF th.PC = Nil
    THEN \* regs.PC() on a register bank that was never loaded
         {Outcome("", FALSE, TRUE, 0, th, tbl, cur, det, traps, alive, live,
                  spc, FALSE)}
    ELSE
    LET atbp == th.PC \in DOMAIN breakpoints
        clearFails ==
            IF atbp
            THEN {Outcome("ProtocolError", FALSE, FALSE, IF CanBp THEN 1 ELSE 0,
                          th, tbl, cur, det, traps, alive, live, spc, FALSE)}
            ELSE {}
        during == trapsDuringStep(th)
        \* the deferred conn.setBreakpoint(pc): installed, or failed unnoticed
        after(al) ==
            IF ~atbp THEN {[traps |-> during, nf |-> 0]}
            ELSE IF ~al THEN {[traps |-> during, nf |-> 0]}
            ELSE {[traps |-> during \cup {th.PC}, nf |-> 0],
                  [traps |-> during, nf |-> 1]}
        stepOutcomes(s) ==
            IF s.res = "err"
            THEN {Outcome("ProtocolError", FALSE, FALSE, s.nf + r.nf, th, tbl,
                          cur, det, r.traps, alive, live, spc, FALSE) :
                    r \in after(alive)}
            ELSE IF s.res = "exit"
            THEN {Outcome("ProcessExitedError", TRUE, FALSE, r.nf, th, tbl, cur,
                          det, r.traps, FALSE, live, spc, FALSE) :
                    r \in after(FALSE)}
            ELSE IF s.inline
            THEN {Outcome("", FALSE, f.panic, r.nf, th, f.threads,
                          f.currentThread, f.detached, r.traps, alive, s.live,
                          s.spc, th.CurrentBreakpoint \notin during) :
                    f \in Finish(Add(tbl, s.live), cur, s.live, det),
                    r \in after(alive)}
            ELSE {Outcome("", FALSE, FALSE, r.nf, th, tbl, cur, det, r.traps,
                          alive, s.live, s.spc,
                          th.CurrentBreakpoint \notin during) :
                    r \in after(alive)}
        all == clearFails
               \cup
               (IF atbp /\ ~CanBp
                THEN {}
                ELSE UNION {stepOutcomes(s) : s \in StubStep(tid, during)})
    IN  {o \in all : Fits(o.nf)}

\* The errors of a register transfer the stub fails (writeSomeRegisters,
\* readSomeRegisters, SetPC): with gcmdok the transfer is one G or g packet,
\* which the stub may also answer as unsupported; the error is returned as is.
registerErrors ==
    IF gcmdok THEN {"ProtocolError", "ProtocolErrorUnsupported"}
    ELSE {"ProtocolError"}

\* SetCurrentBreakpoint: [err, th, spc, sent, nf]
SetCurrentBreakpoint(th, tid) ==
    LET t0 == [th EXCEPT !.CurrentBreakpoint = Nil]
        bp == FindBreakpoint(th.PC)
        t1 == [t0 EXCEPT !.PC = bp]
        \* checkCondition of a breakpoint with no condition: met
        found(sp, wrote) ==
            [err |-> "", sent |-> wrote, spc |-> sp, nf |-> 0,
             th |-> [t1 EXCEPT !.CurrentBreakpoint = bp,
                               !.BreakpointConditionMet = TRUE]]
    IN  IF bp = Nil
        THEN {[err |-> "", sent |-> FALSE, spc |-> spc, nf |-> 0, th |-> t0]}
        ELSE IF th.PC = bp
        THEN {found(spc, FALSE)}
        ELSE \* regs.SetPC: the write of the rewound PC can fail
             IF CanThread(tid)
             THEN {found([spc EXCEPT ![tid] = bp], TRUE)}
                  \cup
                  (IF Fits(1)
                   THEN {[err |-> e, sent |-> TRUE, spc |-> spc, nf |-> 1,
                          th |-> t1] : e \in registerErrors}
                   ELSE {})
             ELSE {[err |-> "ProtocolError", sent |-> TRUE, spc |-> spc,
                    nf |-> 0, th |-> t1]}

\* reloadGAtPC: [err, th, spc, traps, patched, nf].  The traps of the
\* breakpoints in [pc, pc+len(movinstr)] are cleared and reinstalled by
\* deferred calls whose errors are dropped.  The deferred closure that writes
\* the saved code back and restores PC and rcx assigns its errors to a local
\* the function has already returned: they cannot change the value returned.
reloadGAtPC(th, tid) ==
    IF th.PC \in BlockedAddrs
    THEN {[err |-> "", th |-> th, spc |-> spc, traps |-> traps,
           patched |-> patched, nf |-> 0]}
    ELSE
    LET pc0 == th.PC
        R == {a \in DOMAIN breakpoints : a >= pc0 /\ a <= pc0 + MovLen}
        \* the deferred conn.setBreakpoint of the traps in C
        reinstalled(C) ==
            IF alive
            THEN {[traps |-> (traps \cup C) \ lost, nf |-> Cardinality(lost)] :
                    lost \in SUBSET C}
            ELSE {[traps |-> traps \ C, nf |-> 0]}
        \* the deferred writeMemory(pc, savedcode): written, or failed unnoticed
        restored ==
            {[patched |-> patched, nf |-> 0],
             [patched |-> patched \cup {pc0}, nf |-> 1]}
        \* a clearBreakpoint fails after the traps in C were cleared
        clearFails ==
            UNION {{[err |-> "ProtocolError", th |-> th, spc |-> spc,
                     traps |-> r.traps, patched |-> patched,
                     nf |-> r.nf + (IF alive THEN 1 ELSE 0)] :
                      r \in reinstalled(C)} :
                   C \in (IF alive THEN (SUBSET R) \ {R}
                          ELSE IF R = {} THEN {} ELSE {{}})}
        \* the read of the code or the write of the MOV fails
        beforeStep ==
            {[err |-> "ProtocolError", th |-> th, spc |-> spc, traps |-> r.traps,
              patched |-> patched,
              nf |-> r.nf + (IF CanThread(tid) THEN 1 ELSE 0)] :
               r \in reinstalled(R)}
        \* the MOV was written and the step fails
        stepFails ==
            {[err |-> "ProtocolError", th |-> th, spc |-> spc, traps |-> r.traps,
              patched |-> m.patched, nf |-> 1 + r.nf + m.nf] :
               r \in reinstalled(R), m \in restored}
        \* the step was made: then the read of the registers fails or not (e),
        \* the saved code is written back or not (m), and the restore of PC
        \* and rcx reaches the stub or not (a)
        afterStep ==
            {[err |-> e, th |-> th, spc |-> [spc EXCEPT ![tid] = a],
              traps |-> r.traps, patched |-> m.patched,
              nf |-> r.nf + m.nf + (IF e = "" THEN 0 ELSE 1)
                     + (IF a = pc0 THEN 0 ELSE 1)] :
               e \in {""} \cup registerErrors, a \in {pc0, Elsewhere},
               r \in reinstalled(R), m \in restored}
        all == clearFails
               \cup (IF alive \/ R = {} THEN beforeStep ELSE {})
               \cup (IF CanThread(tid) THEN stepFails \cup afterStep ELSE {})
    IN  {o \in all : Fits(o.nf)}

\* reloadGAlloc: [err, th, spc, traps, patched, nf]
reloadGAlloc(th, tid) ==
    IF th.PC \in BlockedAddrs
    THEN {[err |-> "", th |-> th, spc |-> spc, traps |-> traps,
           patched |-> patched, nf |-> 0]}
    ELSE
    LET pc0 == th.PC
        \* the write of PC = loadGInstrAddr fails: the bank keeps that PC
        writeFails ==
            {[err |-> e, th |-> [th EXCEPT !.PC = Elsewhere],
              spc |-> spc, traps |-> traps, patched |-> patched,
              nf |-> IF CanThread(tid) THEN 1 ELSE 0] :
               e \in IF CanThread(tid) THEN registerErrors
                      ELSE {"ProtocolError"}}
        afterStep ==
            {[err |-> e, th |-> th, spc |-> [spc EXCEPT ![tid] = a],
              traps |-> traps, patched |-> patched,
              nf |-> (IF e = "" THEN 0 ELSE 1) + (IF a = pc0 THEN 0 ELSE 1)] :
               e \in {""} \cup registerErrors, a \in {pc0, Elsewhere}}
        all == writeFails \cup (IF CanThread(tid) THEN afterStep ELSE {})
    IN  {o \in all : Fits(o.nf)}

\* gcmdok after the read of the registers: a bulk read (g) answered as
\* unsupported clears the flag, nothing sets it
gcmdokAfterRead_setsWhenAnswered(g, unsupported) == ~unsupported

gcmdokAfterRead(g, unsupported) == IF g /\ unsupported THEN FALSE ELSE g

\* reloadRegisters: [err, th, spc, traps, patched, gcmdok, nf]
reloadRegisters(th, tid) ==
    LET \* the register bank is allocated (zeroed) on first use
        cached == IF th.PC = Nil THEN 0 ELSE th.PC
        \* the flag when no read is answered as unsupported
        kept == gcmdokAfterRead(gcmdok, FALSE)
        \* one p per register: all read, or an error with PC read or not
        single(g, n) ==
            IF CanThread(tid)
            THEN {[err |-> "ProtocolError", PC |-> a, gcmdok |-> g, nf |-> n + 1] :
                    a \in {cached, spc[tid]}}
                 \cup {[err |-> "", PC |-> spc[tid], gcmdok |-> g, nf |-> n]}
            ELSE {[err |-> "ProtocolError", PC |-> cached, gcmdok |-> g, nf |-> n]}
        bulk ==
            IF CanThread(tid)
            THEN {[err |-> "ProtocolError", PC |-> cached, gcmdok |-> kept, nf |-> 1],
                  [err |-> "", PC |-> spc[tid], gcmdok |-> kept, nf |-> 0]}
                 \cup
                 \* a stub that answered g before answers it with an empty packet
                 single(gcmdokAfterRead(gcmdok, TRUE), 1)
            ELSE {[err |-> "ProtocolError", PC |-> cached, gcmdok |-> kept, nf |-> 0]}
        read == IF gcmdok THEN bulk ELSE single(kept, 0)
        resolve(r) ==
            LET t1 == [th EXCEPT !.PC = r.PC]
            IN  IF r.err # ""
                THEN {[err |-> r.err, th |-> t1, spc |-> spc, traps |-> traps,
                       patched |-> patched, gcmdok |-> r.gcmdok, nf |-> r.nf]}
                ELSE {[err |-> o.err, th |-> o.th, spc |-> o.spc,
                       traps |-> o.traps, patched |-> o.patched,
                       gcmdok |-> r.gcmdok,
                       nf |-> r.nf + o.nf] :
                        o \in (IF loadGInstrAddr THEN reloadGAlloc(t1, tid)
                               ELSE reloadGAtPC(t1, tid))}
    IN  {o \in UNION {resolve(r) : r \in read} : Fits(o.nf)}

\* ------------------------------------------------------ breakpoint table
\* the id SetBreakpoint gives a new breakpoint: each kind has its counter,
\* incremented before use
newID(kind) ==
    IF kind # UserBreakpoint THEN internalBreakpointIDCounter + 1
    ELSE breakpointIDCounter + 1

SetBreakpoint_replacesEntry(addr, kind) ==
    {[err |-> "", sent |-> TRUE, traps |-> traps \cup {addr}, nf |-> 0,
      breakpointIDCounter |-> breakpointIDCounter,
      internalBreakpointIDCounter |-> internalBreakpointIDCounter,
      breakpoints |-> [a \in DOMAIN breakpoints \cup {addr} |->
                         IF a = addr THEN [Kind |-> kind, ID |-> newID(kind)]
                         ELSE breakpoints[a]]]}

\* SetBreakpoint: [err, breakpoints, traps, sent, nf, breakpointIDCounter,
\* internalBreakpointIDCounter].  The counter is incremented before the Z0
\* is sent and stays incremented when the Z0 fails.
SetBreakpoint(addr, kind) ==
    LET bic == IF kind = UserBreakpoint THEN newID(kind)
               ELSE breakpointIDCounter
        ibic == IF kind # UserBreakpoint THEN newID(kind)
                ELSE internalBreakpointIDCounter
        fails(n) ==
            [err |-> "ProtocolError", breakpoints |-> breakpoints,
             traps |-> traps, sent |-> TRUE, nf |-> n,
             breakpointIDCounter |-> bic, internalBreakpointIDCounter |-> ibic]
    IN  IF addr \in DOMAIN breakpoints
        THEN {[err |-> "BreakpointExistsError", breakpoints |-> breakpoints,
               traps |-> traps, sent |-> FALSE, nf |-> 0,
               breakpointIDCounter |-> breakpointIDCounter,
               internalBreakpointIDCounter |-> internalBreakpointIDCounter]}
        ELSE IF ~CanBp
        THEN {fails(0)}
        ELSE {[err |-> "", sent |-> TRUE, traps |-> traps \cup {addr}, nf |-> 0,
               breakpointIDCounter |-> bic,
               internalBreakpointIDCounter |-> ibic,
               breakpoints |-> [a \in DOMAIN breakpoints \cup {addr} |->
                                  IF a = addr
                                  THEN [Kind |-> kind, ID |-> newID(kind)]
                                  ELSE breakpoints[a]]]}
             \cup (IF Fits(1) THEN {fails(1)} ELSE {})

ClearBreakpointAt_noLookup(addr) ==
    {[err |-> "", sent |-> TRUE, traps |-> traps \ {addr}, nf |-> 0,
      breakpoints |-> [a \in DOMAIN breakpoints \ {addr} |-> breakpoints[a]]]}

ClearBreakpointAt_keepsTrap(addr) ==
    {[err |-> "", sent |-> TRUE, traps |-> traps, nf |-> 0,
      breakpoints |-> [a \in DOMAIN breakpoints \ {addr} |-> breakpoints[a]]]}

\* ClearBreakpoint: [err, breakpoints, traps, sent, nf]
ClearBreakpointAt(addr) ==
    IF exited
    THEN {[err |-> "ProcessExitedError", breakpoints |-> breakpoints,
           traps |-> traps, sent |-> FALSE, nf |-> 0]}
    ELSE IF addr \notin DOMAIN breakpoints
    THEN {[err |-> "NoBreakpointError", breakpoints |-> breakpoints,
           traps |-> traps, sent |-> FALSE, nf |-> 0]}
    ELSE (IF CanBp
          THEN {[err |-> "", sent |-> TRUE, traps |-> traps \ {addr}, nf |-> 0,
                 breakpoints |-> [a \in DOMAIN breakpoints \ {addr} |->
                                    breakpoints[a]]]}
          ELSE {})
         \cup
         (IF CanBp => Fits(1)
          THEN {[err |-> "ProtocolError", breakpoints |-> breakpoints,
                 traps |-> traps, sent |-> TRUE,
                 nf |-> IF CanBp THEN 1 ELSE 0]}
          ELSE {})

\* ------------------------------------------------------------- Init
\* A state of a session between two operations: the one GdbserverConnect
\* returns (the table holds the stub's threads with their registers loaded,
\* the breakpoint table is empty or holds the unrecovered-panic breakpoint),
\* the one a ContinueOnce leaves when the threads in hit stopped at a
\* breakpoint, or the one it leaves when the inferior exited.
Connected ==
    /\ exited \in BOOLEAN
    /\ alive = ~exited
    /\ live \in (SUBSET Tids) \ {{}}
    /\ spc \in {NormPC(f, live) : f \in [Tids -> Addrs]}
    /\ patched = {}
    \* the unrecovered-panic breakpoint is given the id -1, and the counter
    \* its creation incremented is decremented again
    /\ breakpoints \in {[a \in D |-> [Kind |-> UserBreakpoint, ID |-> 0 - 1]] :
                           D \in {{}, {0}}}
    /\ breakpointIDCounter = 0
    /\ internalBreakpointIDCounter = 0
    /\ traps = DOMAIN breakpoints
    /\ faults = 0
    /\ gcmdok = TRUE
    /\ threadStopInfo \in BOOLEAN
    /\ loadGInstrAddr = FALSE
    /\ isDebugserver \in BOOLEAN
    /\ \E hit \in SUBSET {t \in live : spc[t] \in DOMAIN breakpoints} :
         \* with no qThreadStopInfo every thread at a breakpoint has it
         /\ threadStopInfo \/ hit = {t \in live : spc[t] \in DOMAIN breakpoints}
         /\ exited => hit = {}
         /\ threads = [t \in live |->
                         IF t \in hit
                         THEN [CurrentBreakpoint |-> spc[t],
                               BreakpointConditionMet |-> TRUE,
                               setbp |-> threadStopInfo, PC |-> spc[t]]
                         ELSE [NewThread EXCEPT !.PC = spc[t]]]
    /\ currentThread \in live
    /\ selectedGoroutine \in {NoG, BoundG(currentThread)}
                             \cup {ParkedG(a) : a \in BpAddrs}
    /\ detached = NoThreadObj
    /\ ctrlC = FALSE
    /\ pc = "idle"
    /\ op = ""
    /\ iter = {}
    /\ sig = 0
    /\ tuSeen = {}
    /\ tuDone = FALSE
    /\ threadID = Nil
    /\ sent = FALSE
    /\ ret = NoRet
    /\ calls = 0
    /\ lastList = {}
    /\ hadBp = {}
    /\ stepped = {}
    /\ requested = FALSE
    /\ before = Snapshot

Init == Connected /\ bank = NoBank /\ Untraced

\* ------------------------------------------------------ bookkeeping
tblVars == <<threads, currentThread, detached>>
idVars == <<breakpointIDCounter, internalBreakpointIDCounter>>
flagVars == <<gcmdok, threadStopInfo, loadGInstrAddr, isDebugserver, idVars>>

\* no operation is in progress: none was called yet, or the last one returned
Quiet == {"idle", "returned"}

\* the operation in progress returns r
Done(r) ==
    /\ pc' = "returned"
    /\ ret' = r
    /\ op' = ""
    /\ iter' = {}
    /\ sig' = 0
    /\ tuSeen' = {}
    /\ tuDone' = FALSE
    /\ sent' = FALSE
    /\ hadBp' = {}
    /\ stepped' = {}

\* an operation that runs in one step returns r
Simple(r) ==
    /\ Done(r)
    /\ threadID' = Nil
    /\ lastList' = {}

\* the engine crashed (a Go panic)
Panic ==
    /\ pc' = "panic"
    /\ UNCHANGED <<op, iter, sig, tuSeen, tuDone, threadID, sent, ret,
                   lastList, hadBp, stepped>>

\* the object selectedGoroutine.thread points to
SelObj ==
    IF DOMAIN detached # {} THEN detached[selectedGoroutine.thread]
    ELSE threads[selectedGoroutine.thread]

PutTbl(tbl, det, th) ==
    IF DOMAIN det # {} \/ selectedGoroutine.thread \notin DOMAIN tbl
    THEN tbl
    ELSE [tbl EXCEPT ![selectedGoroutine.thread] = th]

PutDet(det, th) ==
    IF DOMAIN det # {} THEN [t \in DOMAIN det |-> th] ELSE det

\* ------------------------------------------- RequestManualStop, Halt
RequestManualStop ==
    /\ pc # "panic"
    /\ ctrlC' = TRUE
    /\ requested' = (pc \notin Quiet)
    /\ UNCHANGED before
    /\ UNCHANGED <<tblVars, selectedGoroutine, exited, breakpoints, flagVars,
                   ctlVars, stubVars, sideVars, lastList, hadBp, stepped>>

Halt ==
    /\ pc # "panic"
    /\ ctrlC' = TRUE
    /\ requested' = (pc \notin Quiet)
    /\ UNCHANGED before
    /\ UNCHANGED <<tblVars, selectedGoroutine, exited, breakpoints, flagVars,
                   ctlVars, stubVars, sideVars, lastList, hadBp, stepped>>

\* ----------------------------------------- SwitchThread, SwitchGoroutine
\* GetG (outside this file) finds the goroutine running on the thread, or none.
SwitchThread ==
    /\ pc \in Quiet
    /\ calls < MaxCalls
    /\ calls' = calls + 1
    /\ UNCHANGED sideVars
    /\ \E tid \in Tids :
         IF tid \in DOMAIN threads
         THEN /\ currentThread' = tid
              /\ selectedGoroutine' \in {NoG, BoundG(tid)}
              /\ detached' = NoThreadObj
              /\ Simple(Return("SwitchThread", "", Nil, FALSE, exited, FALSE))
         ELSE /\ UNCHANGED <<currentThread, selectedGoroutine, detached>>
              /\ Simple(Return("SwitchThread", "no such thread", Nil, FALSE,
                               exited, FALSE))
    /\ UNCHANGED <<threads, exited, ctrlC, breakpoints, flagVars, stubVars>>
    /\ requested' = FALSE
    /\ before' = Snapshot

\* FindGoroutine (outside this file) returns a goroutine running on a thread
\* of the table, or a parked one with its PC.
SwitchGoroutine ==
    /\ pc \in Quiet
    /\ calls < MaxCalls
    /\ calls' = calls + 1
    /\ UNCHANGED sideVars
    /\ \/ \E tid \in DOMAIN threads :
            /\ currentThread' = tid
            /\ selectedGoroutine' \in {NoG, BoundG(tid)}
            /\ detached' = NoThreadObj
       \/ \E a \in BpAddrs :
            /\ selectedGoroutine' = ParkedG(a)
            /\ detached' = NoThreadObj
            /\ UNCHANGED currentThread
    /\ Simple(Return("SwitchGoroutine", "", Nil, FALSE, exited, FALSE))
    /\ UNCHANGED <<threads, exited, ctrlC, breakpoints, flagVars, stubVars>>
    /\ requested' = FALSE
    /\ before' = Snapshot

\* -------------------------------------- SetBreakpoint, ClearBreakpoint
SetBreakpointCall(max, asked) ==
    /\ pc \in Quiet
    /\ calls < max
    /\ calls' = calls + 1
    /\ UNCHANGED sideVars
    /\ \E addr \in asked : \E o \in SetBreakpoint(addr, UserBreakpoint) :
         /\ breakpoints' = o.breakpoints
         /\ traps' = o.traps
         /\ faults' = faults + o.nf
         /\ breakpointIDCounter' = o.breakpointIDCounter
         /\ internalBreakpointIDCounter' = o.internalBreakpointIDCounter
         /\ Simple(ReturnAt("SetBreakpoint", o.err, o.sent, exited, addr))
    /\ UNCHANGED <<tblVars, selectedGoroutine, exited, ctrlC, gcmdok,
                   threadStopInfo, loadGInstrAddr, isDebugserver,
                   alive, live, spc, patched>>
    /\ requested' = FALSE
    /\ before' = Snapshot

SetBreakpointOp == SetBreakpointCall(MaxCalls, BpAddrs)

ClearBreakpointCall(max) ==
    /\ pc \in Quiet
    /\ calls < max
    /\ calls' = calls + 1
    /\ UNCHANGED sideVars
    /\ \E addr \in Addrs : \E o \in ClearBreakpointAt(addr) :
         /\ breakpoints' = o.breakpoints
         /\ traps' = o.traps
         /\ faults' = faults + o.nf
         /\ Simple(ReturnAt("ClearBreakpoint", o.err, o.sent, exited, addr))
    /\ UNCHANGED <<tblVars, selectedGoroutine, exited, ctrlC, flagVars,
                   alive, live, spc, patched>>
    /\ requested' = FALSE
    /\ before' = Snapshot

ClearBreakpoint == ClearBreakpointCall(MaxCalls)

\* ------------------------------------------------------ ContinueOnce
\* entry of ContinueOnce past the exited check: the step-over loop starts
Begin(o) ==
    /\ pc' = "stepover"
    /\ op' = o
    /\ iter' = DOMAIN threads
    /\ hadBp' = {t \in DOMAIN threads : threads[t].CurrentBreakpoint # Nil}
    /\ stepped' = {}
    /\ ret' = NoRet
    /\ lastList' = {}
    /\ threadID' = Nil
    /\ sig' = 0
    /\ tuSeen' = {}
    /\ tuDone' = FALSE

ContinueOnce ==
    /\ pc \in Quiet
    /\ calls < MaxCalls
    /\ calls' = calls + 1
    /\ UNCHANGED sideVars
    /\ \/ /\ exited
          /\ Simple(Return("ContinueOnce", "ProcessExitedError", Nil, FALSE,
                           TRUE, FALSE))
       \/ /\ ~exited
          /\ Begin("ContinueOnce")
          /\ sent' = FALSE
    /\ UNCHANGED <<tblVars, selectedGoroutine, exited, ctrlC, breakpoints,
                   flagVars, stubVars>>
    /\ requested' = FALSE
    /\ before' = Snapshot

\* one turn of the loop "step threads stopped at any breakpoint over their
\* breakpoint" for a thread whose CurrentBreakpoint is not nil
StepOverBreakpoints ==
    /\ pc = "stepover"
    /\ UNCHANGED <<calls, sideVars>>
    /\ \E t \in iter :
         /\ threads[t].CurrentBreakpoint # Nil
         /\ \E o \in stepInstruction(threads[t], t, threads, currentThread, detached) :
              /\ threads' = o.threads
              /\ currentThread' = o.currentThread
              /\ detached' = o.detached
              /\ traps' = o.traps
              /\ alive' = o.alive
              /\ live' = o.live
              /\ spc' = o.spc
              /\ UNCHANGED patched
              /\ faults' = faults + o.nf
              /\ IF o.panic
                 THEN Panic
                 ELSE IF o.err # ""
                 THEN /\ Done(Return(op, o.err, Nil, TRUE, FALSE, o.exitReply))
                      /\ UNCHANGED <<threadID, lastList>>
                 ELSE /\ iter' = (iter \ {t}) \cap DOMAIN o.threads
                      /\ stepped' = IF o.clean THEN stepped \cup {t} ELSE stepped
                      /\ sent' = TRUE
                      /\ UNCHANGED <<pc, op, sig, tuSeen, tuDone, threadID, ret,
                                     lastList, hadBp>>
    /\ UNCHANGED <<selectedGoroutine, exited, ctrlC, breakpoints, flagVars,
                   requested, before>>

\* the state of every thread is cleared, ctrlC is reset and the first resume
\* is sent
ClearAndResumeSending(w) ==
    /\ pc = "stepover"
    /\ frame.fn = ""
    /\ wire' = w
    /\ UNCHANGED <<calls, bank, frame, bi, scratch>>
    /\ \A t \in iter : threads[t].CurrentBreakpoint = Nil
    /\ threads' = [t \in DOMAIN threads |-> clearBreakpointState(threads[t])]
    /\ ctrlC' = FALSE
    /\ sig' = 0
    /\ tuSeen' = {}
    /\ tuDone' = FALSE
    /\ iter' = {}
    /\ sent' = TRUE
    /\ pc' = "running"
    \* the threads run: the stub holds no program counter until they stop
    /\ spc' = NormPC(spc, {})
    /\ UNCHANGED patched
    /\ UNCHANGED <<currentThread, detached, selectedGoroutine, exited,
                   breakpoints, flagVars, op, threadID, ret, alive, live,
                   traps, faults, obsVars>>

ClearAndResume == ClearAndResumeSending(wire)

\* conn.resume returns: an error, a process exit, or a stop reply naming a
\* signal and a thread, whose inlined thread list (if any) has been given to
\* the threadUpdater
StopReply ==
    /\ pc = "running"
    /\ UNCHANGED <<calls, sideVars>>
    /\ \/ /\ alive => Fits(1)
          /\ faults' = IF alive THEN faults + 1 ELSE faults
          /\ Done(Return(op, "ProtocolError", Nil, TRUE, FALSE, FALSE))
          /\ UNCHANGED <<tblVars, exited, alive, live, threadID, lastList>>
       \/ /\ alive
          /\ alive' = FALSE
          /\ exited' = TRUE
          /\ Done(Return(op, "ProcessExitedError", Nil, TRUE, FALSE, TRUE))
          /\ UNCHANGED <<tblVars, live, faults, threadID, lastList>>
       \/ /\ alive
          /\ \E s \in Signals, L \in (SUBSET Tids) \ {{}}, b \in BOOLEAN :
             \E t \in L :
             \E fo \in (IF b THEN Finish(Add(threads, L), currentThread,
                                        tuSeen \cup L, detached)
                        ELSE {[panic |-> FALSE, threads |-> threads,
                               currentThread |-> currentThread,
                               detached |-> detached]}) :
               /\ live' = L
               /\ threads' = fo.threads
               /\ currentThread' = fo.currentThread
               /\ detached' = fo.detached
               /\ UNCHANGED <<alive, faults, exited>>
               /\ IF fo.panic
                  THEN Panic
                  ELSE /\ tuSeen' = IF b THEN tuSeen \cup L ELSE tuSeen
                       /\ tuDone' = b
                       /\ threadID' = t
                       /\ sig' = s
                       /\ pc' = "classify"
                       /\ hadBp' = {}
                       /\ stepped' = {}
                       /\ UNCHANGED <<op, iter, sent, ret, lastList>>
    /\ UNCHANGED <<selectedGoroutine, ctrlC, breakpoints, flagVars, spc, patched, traps,
                   requested, before>>

\* the loop variable sig after the switch: the signal of the stop reply is
\* the argument of the next conn.resume; it is dead once the loop is left
resumeSignal_dropsSignal(s, c, d) == 0

resumeSignal(s, c, d) == IF exitsLoop(s, c, d) THEN 0 ELSE s

\* the switch on the signal of the stop reply: the loop is left, or its next
\* turn resets tu.done and resumes with the signal.  When the loop is left
\* the threads stay stopped, each at a program counter the stub will report.
Classify ==
    /\ pc = "classify"
    /\ IF exitsLoop(sig, ctrlC, isDebugserver)
       THEN /\ pc' = IF tuDone THEN "stopinfo" ELSE "update"
            /\ lastList' = IF tuDone THEN live ELSE {}
            /\ spc' \in {NormPC(f, live) : f \in [Tids -> Addrs]}
            /\ UNCHANGED patched
            /\ UNCHANGED tuDone
       ELSE /\ pc' = "running"
            /\ tuDone' = FALSE
            /\ UNCHANGED <<lastList, spc, patched>>
    /\ sig' = resumeSignal(sig, ctrlC, isDebugserver)
    /\ requested' = IF sig = interruptSignal THEN FALSE ELSE requested
    /\ UNCHANGED before
    /\ UNCHANGED <<engineVars, alive, live, traps, faults, op, iter, tuSeen,
                   threadID, sent, ret, calls, hadBp, stepped, sideVars>>

\* updateThreadList, the sweep made when the stop reply inlined no list
UpdateThreadList ==
    /\ pc = "update"
    /\ UNCHANGED <<calls, sideVars>>
    /\ \/ \E P \in SUBSET (IF alive THEN live ELSE {}) :
            \* a query fails after the threads in P were added
            /\ alive => Fits(1)
            /\ faults' = IF alive THEN faults + 1 ELSE faults
            /\ threads' = Add(threads, P)
            /\ UNCHANGED <<currentThread, detached>>
            /\ Done(Return(op, "ProtocolError", Nil, TRUE, FALSE, FALSE))
            /\ UNCHANGED <<threadID, lastList>>
       \/ /\ alive
          /\ UNCHANGED faults
          /\ \E fo \in Finish(Add(threads, live), currentThread,
                              tuSeen \cup live, detached) :
               /\ threads' = fo.threads
               /\ currentThread' = fo.currentThread
               /\ detached' = fo.detached
               /\ IF fo.panic
                  THEN Panic
                  ELSE /\ tuSeen' = tuSeen \cup live
                       /\ tuDone' = TRUE
                       /\ lastList' = live
                       /\ pc' = "stopinfo"
                       /\ UNCHANGED <<sig, op, iter, threadID, sent, ret,
                                      hadBp, stepped>>
    /\ UNCHANGED <<selectedGoroutine, exited, ctrlC, breakpoints, flagVars,
                   alive, live, spc, patched, traps, requested, before>>

\* where updateThreadList goes on after the qThreadStopInfo loop: to the loop
\* that reloads the registers, which has no turn when the table is empty
AfterStopInfo == IF DOMAIN threads = {} THEN "setbps" ELSE "reload"

\* updateThreadList, the qThreadStopInfo loop: the threads in V are answered,
\* B are the ones reported stopped by a breakpoint (threads at a trap)
ThreadStopInfo ==
    /\ pc = "stopinfo"
    /\ UNCHANGED <<calls, sideVars>>
    /\ \/ /\ ~threadStopInfo
          /\ pc' = AfterStopInfo
          /\ iter' = DOMAIN threads
          /\ UNCHANGED <<sig, threads, threadStopInfo, faults, op, tuSeen, tuDone,
                         threadID, sent, ret, lastList, hadBp, stepped>>
       \/ /\ threadStopInfo
          /\ \E V \in SUBSET (DOMAIN threads \cap (IF alive THEN live ELSE {})) :
             \E B \in SUBSET {t \in V : FindBreakpoint(spc[t]) \in traps} :
               /\ threads' = [t \in DOMAIN threads |->
                                IF t \in V
                                THEN [threads[t] EXCEPT !.setbp = (t \in B)]
                                ELSE threads[t]]
               /\ \/ /\ V = DOMAIN threads
                     /\ pc' = AfterStopInfo
                     /\ iter' = DOMAIN threads
                     /\ UNCHANGED <<sig, threadStopInfo, faults, op, tuSeen, tuDone,
                                    threadID, sent, ret, lastList, hadBp,
                                    stepped>>
                  \/ \* a stub that answered the query before answers it
                     \* with an empty packet
                     /\ V # DOMAIN threads
                     /\ alive
                     /\ Fits(1)
                     /\ faults' = faults + 1
                     /\ threadStopInfo' = FALSE
                     /\ pc' = AfterStopInfo
                     /\ iter' = DOMAIN threads
                     /\ UNCHANGED <<sig, op, tuSeen, tuDone, threadID, sent,
                                    ret, lastList, hadBp, stepped>>
                  \/ /\ V # DOMAIN threads
                     /\ LET t == CHOOSE x \in DOMAIN threads \ V : TRUE
                        IN  /\ CanThread(t) => Fits(1)
                            /\ faults' = IF CanThread(t) THEN faults + 1
                                         ELSE faults
                     /\ Done(Return(op, "ProtocolError", Nil, TRUE, FALSE, FALSE))
                     /\ UNCHANGED <<threadStopInfo, threadID, lastList>>
    /\ UNCHANGED <<currentThread, detached, selectedGoroutine, exited, ctrlC,
                   breakpoints, gcmdok, loadGInstrAddr, isDebugserver, idVars,
                   alive, live, spc, patched, traps, requested, before>>

\* updateThreadList, one turn of the loop that reloads the registers
ReloadRegisters ==
    /\ pc = "reload"
    /\ UNCHANGED <<calls, sideVars>>
    /\ \E t \in iter : \E o \in reloadRegisters(threads[t], t) :
         /\ threads' = [threads EXCEPT ![t] = o.th]
         /\ spc' = o.spc
         /\ patched' = o.patched
         /\ traps' = o.traps
         /\ gcmdok' = o.gcmdok
         /\ faults' = faults + o.nf
         /\ IF o.err # ""
            THEN /\ Done(Return(op, o.err, Nil, TRUE, FALSE, FALSE))
                 /\ UNCHANGED <<threadID, lastList>>
            ELSE /\ iter' = IF iter = {t} THEN DOMAIN threads ELSE iter \ {t}
                 /\ pc' = IF iter = {t} THEN "setbps" ELSE "reload"
                 /\ UNCHANGED <<op, sig, tuSeen, tuDone, threadID, sent, ret,
                                lastList, hadBp, stepped>>
    /\ UNCHANGED <<currentThread, detached, selectedGoroutine, exited, ctrlC,
                   breakpoints, threadStopInfo, loadGInstrAddr, isDebugserver, idVars,
                   alive, live, requested, before>>

\* the threads setCurrentBreakpoints has still to compute a breakpoint for
Candidates_ignoresReason == {t \in iter : threads[t].CurrentBreakpoint = Nil}

Candidates ==
    IF threadStopInfo
    THEN {t \in iter : threads[t].setbp}
    ELSE {t \in iter : threads[t].CurrentBreakpoint = Nil}

\* setCurrentBreakpoints, one turn of its loop
SetCurrentBreakpoints ==
    /\ pc = "setbps"
    /\ UNCHANGED <<calls, sideVars>>
    /\ \E t \in Candidates : \E o \in SetCurrentBreakpoint(threads[t], t) :
         /\ threads' = [threads EXCEPT ![t] = o.th]
         /\ spc' = o.spc
         /\ UNCHANGED patched
         /\ faults' = faults + o.nf
         /\ IF o.err # ""
            THEN /\ Done(Return(op, o.err, Nil, TRUE, FALSE, FALSE))
                 /\ UNCHANGED <<threadID, lastList>>
            ELSE /\ iter' = iter \ {t}
                 /\ UNCHANGED <<pc, op, sig, tuSeen, tuDone, threadID, sent,
                                ret, lastList, hadBp, stepped>>
    /\ UNCHANGED <<currentThread, detached, selectedGoroutine, exited, ctrlC,
                   breakpoints, flagVars, alive, live, traps, requested, before>>

\* the thread whose id is the one of the stop reply is returned
ContinueOnceReturn ==
    /\ pc = "setbps"
    /\ UNCHANGED <<calls, sideVars>>
    /\ Candidates = {}
    /\ IF threadID \in DOMAIN threads
       THEN Done(Return(op, "", threadID, TRUE, FALSE, FALSE))
       ELSE Done(Return(op, "could not find thread", Nil, TRUE, FALSE, FALSE))
    /\ UNCHANGED <<engineVars, stubVars, threadID, lastList, requested, before>>

\* --------------------------------------------------- StepInstruction
StepInstruction ==
    /\ pc \in Quiet
    /\ calls < MaxCalls
    /\ calls' = calls + 1
    /\ UNCHANGED sideVars
    /\ \/ /\ selectedGoroutine.g = "nil"
          /\ Simple(Return("StepInstruction", "cannot single step: no selected goroutine",
                           Nil, FALSE, exited, FALSE))
          /\ UNCHANGED <<tblVars, breakpoints, stubVars, idVars>>
       \/ /\ selectedGoroutine.g = "parked"
          \* step called on parked goroutine: a temporary breakpoint, then Continue
          /\ \E o \in SetBreakpoint(selectedGoroutine.PC, NextBreakpoint) :
               /\ breakpoints' = o.breakpoints
               /\ traps' = o.traps
               /\ faults' = faults + o.nf
               /\ breakpointIDCounter' = o.breakpointIDCounter
               /\ internalBreakpointIDCounter' = o.internalBreakpointIDCounter
               /\ IF o.err # ""
                  THEN Simple(Return("StepInstruction", o.err, Nil, o.sent,
                                     exited, FALSE))
                  ELSE IF exited
                  THEN Simple(Return("StepInstruction", "ProcessExitedError",
                                     Nil, TRUE, TRUE, FALSE))
                  ELSE Begin("StepInstruction") /\ sent' = TRUE
          /\ UNCHANGED <<tblVars, alive, live, spc, patched>>
       \/ /\ selectedGoroutine.g = "bound"
          /\ IF exited
             THEN /\ Simple(Return("StepInstruction", "ProcessExitedError", Nil,
                                   FALSE, TRUE, FALSE))
                  /\ UNCHANGED <<tblVars, breakpoints, stubVars, idVars>>
             ELSE LET th0 == clearBreakpointState(SelObj)
                      tbl0 == PutTbl(threads, detached, th0)
                      det0 == PutDet(detached, th0)
                  IN  \E o \in stepInstruction(th0, selectedGoroutine.thread,
                                               tbl0, currentThread, det0) :
                        /\ threads' = o.threads
                        /\ currentThread' = o.currentThread
                        /\ detached' = o.detached
                        /\ traps' = o.traps
                        /\ alive' = o.alive
                        /\ live' = o.live
                        /\ spc' = o.spc
                        /\ UNCHANGED patched
                        /\ faults' = faults + o.nf
                        /\ UNCHANGED <<breakpoints, idVars>>
                        /\ IF o.panic
                           THEN Panic
                           ELSE IF o.err # ""
                           THEN Simple(Return("StepInstruction", o.err, Nil,
                                              TRUE, FALSE, o.exitReply))
                           ELSE /\ pc' = "si_reload"
                                /\ op' = "StepInstruction"
                                /\ sent' = TRUE
                                /\ ret' = NoRet
                                /\ threadID' = Nil
                                /\ lastList' = {}
                                /\ UNCHANGED <<iter, sig, tuSeen, tuDone, hadBp,
                                               stepped>>
    /\ UNCHANGED <<selectedGoroutine, exited, ctrlC, gcmdok, threadStopInfo,
                   loadGInstrAddr, isDebugserver>>
    /\ requested' = FALSE
    /\ before' = Snapshot

\* thread.StepInstruction, after the step: the registers are reloaded
StepReload ==
    /\ pc = "si_reload"
    /\ UNCHANGED <<calls, sideVars>>
    /\ \E o \in reloadRegisters(SelObj, selectedGoroutine.thread) :
         /\ threads' = PutTbl(threads, detached, o.th)
         /\ detached' = PutDet(detached, o.th)
         /\ spc' = o.spc
         /\ patched' = o.patched
         /\ traps' = o.traps
         /\ gcmdok' = o.gcmdok
         /\ faults' = faults + o.nf
         /\ IF o.err # ""
            THEN /\ Done(Return(op, o.err, Nil, TRUE, FALSE, FALSE))
                 /\ UNCHANGED <<threadID, lastList>>
            ELSE /\ pc' = "si_setbp"
                 /\ UNCHANGED <<op, iter, sig, tuSeen, tuDone, threadID, sent,
                                ret, lastList, hadBp, stepped>>
    /\ UNCHANGED <<currentThread, selectedGoroutine, exited, ctrlC, breakpoints,
                   threadStopInfo, loadGInstrAddr, isDebugserver, idVars, alive, live,
                   requested, before>>

\* StepInstruction ends with thread.SetCurrentBreakpoint
StepSetCurrentBreakpoint ==
    /\ pc = "si_setbp"
    /\ UNCHANGED <<calls, sideVars>>
    /\ \E o \in SetCurrentBreakpoint(SelObj, selectedGoroutine.thread) :
         /\ threads' = PutTbl(threads, detached, o.th)
         /\ detached' = PutDet(detached, o.th)
         /\ spc' = o.spc
         /\ UNCHANGED patched
         /\ faults' = faults + o.nf
         /\ Done(Return(op, o.err, Nil, TRUE, FALSE, FALSE))
         /\ UNCHANGED <<threadID, lastList>>
    /\ UNCHANGED <<currentThread, selectedGoroutine, exited, ctrlC, breakpoints,
                   flagVars, alive, live, traps, requested, before>>

\* ------------------------------------------------------------- Next
Next ==
    \/ RequestManualStop
    \/ Halt
    \/ SwitchThread
    \/ SwitchGoroutine
    \/ SetBreakpointOp
    \/ ClearBreakpoint
    \/ ContinueOnce
    \/ StepOverBreakpoints
    \/ ClearAndResume
    \/ StopReply
    \/ Classify
    \/ UpdateThreadList
    \/ ThreadStopInfo
    \/ ReloadRegisters
    \/ SetCurrentBreakpoints
    \/ ContinueOnceReturn
    \/ StepInstruction
    \/ StepReload
    \/ StepSetCurrentBreakpoint

Spec == Init /\ [][Next]_vars

\* ------------------------------------------ the switch on every signal
\* ContinueOnce has received a stop reply carrying any signal a stop reply
\* can carry, with ctrlC set or not, from a debugserver or another stub.
InitClassify ==
    /\ pc = "classify"
    /\ sig \in AllSignals
    /\ ctrlC \in BOOLEAN
    /\ requested = ctrlC
    /\ isDebugserver \in BOOLEAN
    /\ breakpointIDCounter = 0
    /\ internalBreakpointIDCounter = 0
    /\ tuDone \in BOOLEAN
    /\ exited = FALSE
    /\ alive = TRUE
    /\ live = {1}
    /\ spc = NormPC([t \in Tids |-> 0], {})
    /\ patched = {}
    /\ breakpoints = [a \in {} |-> [Kind |-> UserBreakpoint]]
    /\ traps = {}
    /\ faults = 0
    /\ gcmdok = TRUE
    /\ threadStopInfo = TRUE
    /\ loadGInstrAddr = FALSE
    /\ threads = [t \in {1} |-> [NewThread EXCEPT !.PC = 0]]
    /\ currentThread = 1
    /\ selectedGoroutine = BoundG(1)
    /\ detached = NoThreadObj
    /\ op = "ContinueOnce"
    /\ iter = {}
    /\ tuSeen = IF tuDone THEN {1} ELSE {}
    /\ threadID = 1
    /\ sent = TRUE
    /\ ret = NoRet
    /\ calls = 1
    /\ bank = NoBank
    /\ Untraced
    /\ lastList = {}
    /\ hadBp = {}
    /\ stepped = {}
    /\ before = Snapshot

NextClassify == Classify

SpecClassify == InitClassify /\ [][NextClassify]_vars

\* ------------------------------------------------------------ claims
\* C1: the decision to leave the resume loop of ContinueOnce is a function
\* of (signal, ctrlC, isDebugserver): the loop is left for 0x5, for 0x13,
\* for 0x91..0x96, for 0x2 exactly when ctrlC is set and for 0x11 exactly
\* when the stub is debugserver; in every other case it is not left and the
\* next resume keeps the signal.
C1_LoopExitTable ==
    [][pc = "classify" /\ pc' # "classify" =>
         LET leaves == \/ sig = 5
                       \/ sig = 19
                       \/ sig \in 145..150
                       \/ sig = 2 /\ ctrlC
                       \/ sig = 17 /\ isDebugserver
         IN  IF leaves
             THEN pc' \in {"update", "stopinfo"}
             ELSE pc' = "running" /\ sig' = sig]_vars

\* C1, its case: signal 0x11 from a stub that is not debugserver has been
\* classified and is forwarded.
C1_Witness ==
    pc = "running" /\ sig = 17 /\ ~isDebugserver /\ op = "ContinueOnce"

\* C2: after RequestManualStop or Halt was called during a ContinueOnce, the
\* next stop reply carrying 0x2 makes ContinueOnce leave its resume loop.
C2_ManualStopHonoured ==
    [][pc = "classify" /\ pc' # "classify" /\ sig = 2 /\ requested =>
         pc' \in {"update", "stopinfo"}]_vars

\* C3: an operation that returns because the stub replied with a process
\* exit leaves the engine marked exited.
C3_ExitReplyMarksExited ==
    (pc = "returned" /\ ret.exitReply) => exited

\* C4: ContinueOnce, StepInstruction (with a goroutine selected),
\* SetBreakpoint and ClearBreakpoint called on an exited engine return
\* ProcessExitedError and send no packet.
C4_ExitedEngineRefuses ==
    (/\ pc = "returned"
     /\ ret.wasExited
     /\ ret.op \in {"ContinueOnce", "StepInstruction", "SetBreakpoint",
                    "ClearBreakpoint"}
     /\ ret.op = "StepInstruction" => selectedGoroutine.g # "nil")
    => (ret.err = "ProcessExitedError" /\ ~ret.sent)

\* C5: while no operation is in progress and the inferior exists, the stub
\* holds a trap at exactly the addresses of the breakpoint table.
C5_TrapsMatchTable ==
    (pc \in Quiet /\ alive) => traps = DOMAIN breakpoints

\* C6: when the global resume of ContinueOnce is issued, every thread of the
\* table that had a current breakpoint when ContinueOnce was called has made
\* one step with no trap installed at that breakpoint.
C6_SteppedOverBeforeResume ==
    (pc = "running" /\ sig = 0) => (hadBp \cap DOMAIN threads) \subseteq stepped

\* C6, its case: the resume is outstanding after a thread with a current
\* breakpoint was stepped over it.
C6_Witness ==
    pc = "running" /\ sig = 0 /\ stepped # {} /\ alive

\* C7: once ContinueOnce has left its resume loop and given the most recent
\* thread list to the threadUpdater, and when it returns successfully, the
\* thread table holds exactly the threads of that list: a thread absent from
\* it has been removed, also when an earlier stop reply listed it.
C7_TableIsLastList ==
    (\/ pc \in {"stopinfo", "reload", "setbps"}
     \/ pc = "returned" /\ ret.op = "ContinueOnce" /\ ret.err = "")
    => DOMAIN threads = lastList

C9_ClearedWhileRunning ==
    pc = "running" =>
      \A t \in DOMAIN threads :
        /\ threads[t].CurrentBreakpoint = Nil
        /\ ~threads[t].BreakpointConditionMet
        /\ ~threads[t].setbp

\* C9, its case: a resume is outstanding, a thread that had a current
\* breakpoint is in the table and so is a thread added since the resume.
C9_Witness ==
    /\ pc = "running"
    /\ sig = 11
    /\ \E t \in DOMAIN threads : threads[t].PC = Nil
    /\ \E t \in DOMAIN threads : threads[t].PC \in DOMAIN breakpoints

\* C10: while no operation is in progress, selectedGoroutine.thread, when
\* not nil, is a thread object stored in the thread table.
C10_SelectedThreadInTable ==
    (pc \in Quiet /\ selectedGoroutine.g = "bound")
    => (DOMAIN detached = {} /\ selectedGoroutine.thread \in DOMAIN threads)

\* C11: after reloadGAtPC returns, the code under the thread's PC, the
\* thread's PC and rcx in the stub, and the stub's traps are what they were
\* before the call (reloadRegisters calls it once the registers are read).
C11_ReloadGAtPCInPlace ==
    [][~loadGInstrAddr /\ pc \in {"reload", "si_reload"} =>
         (patched' = patched /\ spc' = spc /\ traps' = traps)]_vars

\* C12: capability downgrade is monotone: once gcmdok is false it stays
\* false, and once threadStopInfo is false it stays false.
C12_DowngradeMonotone ==
    [][(~gcmdok => ~gcmdok') /\ (~threadStopInfo => ~threadStopInfo')]_vars

\* C12, its case: the bulk register read was answered as unsupported during
\* a ContinueOnce, which went on to read the other threads and returned.
C12_Witness ==
    /\ pc = "returned"
    /\ ret.op = "ContinueOnce"
    /\ ret.err = ""
    /\ ~gcmdok
    /\ Cardinality(DOMAIN threads) >= 2

\* C13: an unsupported reply to a capability-gated packet (g, G,
\* qThreadStopInfo) is never returned to the caller of ContinueOnce or
\* StepInstruction.
C13_UnsupportedSwallowed ==
    (pc = "returned" /\ ret.op \in {"ContinueOnce", "StepInstruction"})
    => ret.err # "ProtocolErrorUnsupported"

\* C14: when ContinueOnce or StepInstruction returns an error that is not a
\* process exit, the thread table, each thread's CurrentBreakpoint and
\* condition state, the breakpoint table and the stub's traps are what they
\* were when the operation was called.
C14_ErrorKeepsSnapshot ==
    (/\ pc = "returned"
     /\ ret.op \in {"ContinueOnce", "StepInstruction"}
     /\ ret.err \notin {"", "ProcessExitedError"})
    => /\ DOMAIN threads = DOMAIN before.threads
       /\ \A t \in DOMAIN threads \cap DOMAIN before.threads :
            /\ threads[t].CurrentBreakpoint = before.threads[t].CurrentBreakpoint
            /\ threads[t].BreakpointConditionMet
                 = before.threads[t].BreakpointConditionMet
       /\ breakpoints = before.breakpoints
       /\ traps = before.traps

\* ------------------------------------------------ the breakpoint table
\* SetBreakpoint and ClearBreakpoint called one after the other
TableSet == SetBreakpointCall(MaxTableCalls, Addrs)

TableClear == ClearBreakpointCall(MaxTableCalls)

NextTable == TableSet \/ TableClear

SpecTable == Init /\ [][NextTable]_vars

\* C15: SetBreakpoint at an address that has a table entry returns
\* BreakpointExistsError, sends no packet and leaves the table (and the
\* stub's traps) as they are; in every state a call would do so.
C15_SecondSetRefused ==
    /\ \A a \in DOMAIN breakpoints : \A k \in {UserBreakpoint, NextBreakpoint} :
         \A o \in SetBreakpoint(a, k) :
           /\ o.err = "BreakpointExistsError"
           /\ ~o.sent
           /\ o.breakpoints = breakpoints
           /\ o.traps = traps
    /\ (/\ pc = "returned"
        /\ ret.op = "SetBreakpoint"
        /\ ret.addr \in DOMAIN before.breakpoints)
       => /\ ret.err = "BreakpointExistsError"
          /\ ~ret.sent
          /\ breakpoints = before.breakpoints
          /\ traps = before.traps

\* C15, its case: SetBreakpoint created the breakpoint at an address and was
\* called again for it.
C15_Witness ==
    /\ pc = "returned"
    /\ ret.op = "SetBreakpoint"
    /\ ret.err = "BreakpointExistsError"
    /\ ret.addr \in DOMAIN breakpoints
    /\ breakpoints[ret.addr].ID = breakpointIDCounter
    /\ breakpointIDCounter >= 1

\* C16 as stated: ClearBreakpoint of an address with no table entry returns
\* NoBreakpointError in every engine state, sends no packet and leaves the
\* table as it is.
C16_ClearUnknownAnyState ==
    (/\ pc = "returned"
     /\ ret.op = "ClearBreakpoint"
     /\ ret.addr \notin DOMAIN before.breakpoints)
    => /\ ret.err = "NoBreakpointError"
       /\ ~ret.sent
       /\ breakpoints = before.breakpoints

\* C16, amended: it does so on an engine that is not exited; an exited
\* engine returns ProcessExitedError, and in both cases no packet is sent
\* and the table and the traps stay as they are.
C16_ClearUnknownRefused ==
    (/\ pc = "returned"
     /\ ret.op = "ClearBreakpoint"
     /\ ret.addr \notin DOMAIN before.breakpoints)
    => /\ ret.err = IF ret.wasExited THEN "ProcessExitedError"
                    ELSE "NoBreakpointError"
       /\ ~ret.sent
       /\ breakpoints = before.breakpoints
       /\ traps = before.traps

\* C16, its case: ClearBreakpoint was called for an address with no entry
\* while other addresses have one.
C16_Witness ==
    /\ pc = "returned"
    /\ ret.op = "ClearBreakpoint"
    /\ ret.err = "NoBreakpointError"
    /\ ret.addr \notin DOMAIN breakpoints
    /\ DOMAIN breakpoints # {}
    /\ ~exited

\* C17: a successful SetBreakpoint(addr) followed by a successful
\* ClearBreakpoint(addr) leaves the breakpoint table and the stub's traps as
\* they were before the pair.
C17_SetClearIdentity ==
    [][(/\ pc = "returned"
        /\ ret.op = "SetBreakpoint"
        /\ ret.err = ""
        /\ pc' = "returned"
        /\ ret'.op = "ClearBreakpoint"
        /\ ret'.err = ""
        /\ ret'.addr = ret.addr)
       => (breakpoints' = before.breakpoints /\ traps' = before.traps)]_vars

\* C17, its case: the breakpoint ClearBreakpoint removed is the one the
\* latest successful SetBreakpoint had created, beside another entry.
C17_Witness ==
    /\ pc = "returned"
    /\ ret.op = "ClearBreakpoint"
    /\ ret.err = ""
    /\ breakpointIDCounter >= 1
    /\ before.breakpoints[ret.addr].ID = breakpointIDCounter
    /\ DOMAIN breakpoints # {}

\* C18: a breakpoint SetBreakpoint creates with kind User gets a positive
\* id, one it creates with another kind gets a negative id.
C18_IdSignByKind ==
    [][\A a \in DOMAIN breakpoints' \ DOMAIN breakpoints :
         IF breakpoints'[a].Kind = UserBreakpoint
         THEN breakpoints'[a].ID > 0
         ELSE breakpoints'[a].ID < 0]_vars

\* ------------------------------------------------- register access
\* a connected engine with one thread, whose rax and r8 hold any values
InitRegs ==
    /\ Connected
    /\ ~exited
    /\ live = {1}
    /\ DOMAIN breakpoints = {}
    /\ threadStopInfo
    /\ ~isDebugserver
    /\ selectedGoroutine = BoundG(1)
    /\ bank \in {[NoBank EXCEPT !.regs = [rax |-> v, r8 |-> w]] :
                   v \in Word64s, w \in Word64s}
    /\ Untraced

\* gdbRegisters.Get called for register n
GetRegister ==
    /\ \E n \in RegNames :
         bank' = [bank EXCEPT !.asked = n, !.got = Get(n).value,
                              !.err = Get(n).err]
    /\ UNCHANGED <<engineVars, ctlVars, stubVars, obsVars, wire, frame, bi,
                   scratch>>

NextRegs == GetRegister

SpecRegs == InitRegs /\ [][NextRegs]_vars

\* C19: Get returns the bit field of the 64-bit container the register
\* names: the low 8, 16 or 32 bits for the 8, 16 and 32 bit forms, bits 8..15
\* for a high-byte register, the full value for a 64-bit form.
C19_SubRegisterBits ==
    LET c == IF bank.asked \in {"AL", "AH", "AX", "EAX", "RAX"}
             THEN bank.regs.rax ELSE bank.regs.r8
        field ==
            CASE bank.asked \in {"AL", "R8B"} -> <<0, 0, 0, c[4] % 256>>
              [] bank.asked = "AH" -> <<0, 0, 0, c[4] \div 256>>
              [] bank.asked \in {"AX", "R8W"} -> <<0, 0, 0, c[4]>>
              [] bank.asked \in {"EAX", "R8L"} -> <<0, 0, c[3], c[4]>>
              [] OTHER -> c
    IN  bank.asked \in RegNames \ {"X0"}
        => (bank.err = "" /\ bank.got = field)

\* ------------------------------------------------- signal pass-through
\* C20: the first resume of a ContinueOnce carries no signal; after a stop
\* reply whose signal does not leave the loop the next step of ContinueOnce
\* is a resume carrying exactly that signal; and an outstanding resume ends
\* only in a stop reply to classify or in an error.
C20_SignalForwarded ==
    [][/\ (pc = "stepover" /\ pc' = "running") => sig' = 0
       /\ (pc = "classify" /\ pc' # "classify"
           /\ ~exitsLoop(sig, ctrlC, isDebugserver))
          => (pc' = "running" /\ sig' = sig /\ sent')
       /\ (pc = "running" /\ pc' # "running")
          => \/ pc' = "classify"
             \/ pc' = "panic"
             \/ pc' = "returned" /\ ret'.err # ""]_vars

\* C20, its case: an interrupt signal nobody asked for was reported and has
\* been passed back to the inferior with the next resume.
C20_Witness ==
    /\ pc = "running"
    /\ op = "ContinueOnce"
    /\ sig = interruptSignal
    /\ ~ctrlC
    /\ ~requested
    /\ threadID # Nil

\* ------------------------------------- the packets of the step-over loop
\* a packet and its argument (an address, a thread or a signal)
Packet(p, a) == [p |-> p, arg |-> a, reg |-> ""]

\* a packet about register r of thread t ("" for all registers), or a
\* memory packet at address t that carries the bytes named r
RegPacket(p, t, r) == [p |-> p, arg |-> t, reg |-> r]

\* the operation goes on where it is
Stay ==
    UNCHANGED <<pc, op, iter, sig, tuSeen, tuDone, threadID, sent, ret,
                lastList, hadBp, stepped>>

\* the deferred conn.setBreakpoint(pc) of stepInstruction
reinstallPacket_none(f) == <<>>

reinstallPacket(f) ==
    IF f.deferred THEN <<Packet("Z0", f.pc)>> ELSE <<>>

\* stepInstruction is called for a thread of the loop whose CurrentBreakpoint
\* is not nil: the trap under its PC is cleared if the table has a breakpoint
\* there, and its reinstallation is deferred
stepInstructionEnter ==
    /\ pc = "stepover"
    /\ frame.fn = ""
    /\ \E t \in iter :
         /\ threads[t].CurrentBreakpoint # Nil
         /\ LET at == threads[t].PC
                entered(d, pn) ==
                    [fn |-> "stepInstruction", t |-> t, pc |-> at,
                     deferred |-> d, at |-> IF pn THEN "return" ELSE "step",
                     err |-> "", exitReply |-> FALSE, clean |-> FALSE,
                     panic |-> pn]
            IN  IF at = Nil
                THEN \* regs.PC() on a register bank that was never loaded
                     /\ frame' = entered(FALSE, TRUE)
                     /\ Stay
                     /\ UNCHANGED <<wire, traps, faults>>
                ELSE IF at \notin DOMAIN breakpoints
                THEN /\ frame' = entered(FALSE, FALSE)
                     /\ Stay
                     /\ UNCHANGED <<wire, traps, faults>>
                ELSE /\ wire' = Append(wire, Packet("z0", at))
                     /\ \/ /\ CanBp
                           /\ traps' = traps \ {at}
                           /\ frame' = entered(TRUE, FALSE)
                           /\ Stay
                           /\ UNCHANGED faults
                        \/ /\ CanBp => Fits(1)
                           /\ faults' = IF CanBp THEN faults + 1 ELSE faults
                           /\ Done(Return(op, "ProtocolError", Nil, TRUE, FALSE,
                                          FALSE))
                           /\ UNCHANGED <<traps, frame, threadID, lastList>>
    /\ UNCHANGED <<engineVars, calls, alive, live, spc, patched, requested,
                   before, bank, bi, scratch>>

\* conn.step: the thread is stepped with the traps that are installed now
stepInstructionStep ==
    /\ frame.fn = "stepInstruction"
    /\ frame.at = "step"
    /\ wire' = Append(wire, Packet("vCont;s", frame.t))
    /\ \E s \in StubStep(frame.t, traps) :
         /\ Fits(s.nf)
         /\ faults' = faults + s.nf
         /\ IF s.res = "err"
            THEN /\ frame' = [frame EXCEPT !.at = "return",
                                           !.err = "ProtocolError"]
                 /\ UNCHANGED <<tblVars, alive, live, spc>>
            ELSE IF s.res = "exit"
            THEN /\ frame' = [frame EXCEPT !.at = "return",
                                           !.err = "ProcessExitedError",
                                           !.exitReply = TRUE]
                 /\ alive' = FALSE
                 /\ UNCHANGED <<tblVars, live, spc>>
            ELSE /\ live' = s.live
                 /\ spc' = s.spc
                 /\ UNCHANGED alive
                 /\ \E f \in (IF s.inline
                              THEN Finish(Add(threads, s.live), currentThread,
                                          s.live, detached)
                              ELSE {[panic |-> FALSE, threads |-> threads,
                                     currentThread |-> currentThread,
                                     detached |-> detached]}) :
                      /\ threads' = f.threads
                      /\ currentThread' = f.currentThread
                      /\ detached' = f.detached
                      /\ frame' = [frame EXCEPT
                                     !.at = "return",
                                     !.panic = f.panic,
                                     !.clean = threads[frame.t].CurrentBreakpoint
                                                 \notin traps]
    /\ Stay
    /\ UNCHANGED <<selectedGoroutine, exited, ctrlC, breakpoints, flagVars,
                   calls, traps, patched, requested, before, bank, bi,
                   scratch>>

\* stepInstruction returns: the deferred conn.setBreakpoint runs, its error
\* is dropped, and the loop of ContinueOnce goes on or returns the error
stepInstructionReturn ==
    /\ frame.fn = "stepInstruction"
    /\ frame.at = "return"
    /\ wire' = wire \o reinstallPacket(frame)
    /\ IF frame.deferred /\ alive
       THEN \/ traps' = traps \cup {frame.pc} /\ UNCHANGED faults
            \/ Fits(1) /\ faults' = faults + 1 /\ UNCHANGED traps
       ELSE UNCHANGED <<traps, faults>>
    /\ frame' = NoFrame
    /\ IF frame.panic
       THEN Panic
       ELSE IF frame.err # ""
       THEN /\ Done(Return(op, frame.err, Nil, TRUE, FALSE, frame.exitReply))
            /\ UNCHANGED <<threadID, lastList>>
       ELSE /\ iter' = (iter \ {frame.t}) \cap DOMAIN threads
            /\ stepped' = IF frame.clean THEN stepped \cup {frame.t}
                          ELSE stepped
            /\ sent' = TRUE
            /\ UNCHANGED <<pc, op, sig, tuSeen, tuDone, threadID, ret,
                           lastList, hadBp>>
    /\ UNCHANGED <<engineVars, calls, alive, live, spc, patched, requested,
                   before, bank, bi, scratch>>

\* the first resume of ContinueOnce, recorded
ResumeSent == ClearAndResumeSending(Append(wire, Packet("vCont;c", 0)))

NextStepOver ==
    \/ ContinueOnce
    \/ stepInstructionEnter
    \/ stepInstructionStep
    \/ stepInstructionReturn
    \/ ResumeSent

SpecStepOver == Init /\ [][NextStepOver]_vars

\* C21: when ContinueOnce sends its first resume, no resume was sent before
\* and, for every thread that had a current breakpoint whose address is in
\* the table, the stub has seen the trap at that address cleared, then the
\* step of that thread, then the trap set again; and as long as the loop of
\* the step-overs runs no thread has lost its current breakpoint.
C21_StepOverOrder ==
    /\ pc = "running" =>
         /\ wire[Len(wire)] = Packet("vCont;c", 0)
         /\ \A i \in 1..(Len(wire) - 1) : wire[i].p # "vCont;c"
         /\ \A t \in hadBp \cap DOMAIN threads :
              LET a == before.threads[t].CurrentBreakpoint
              IN  a \in DOMAIN before.breakpoints =>
                    \E i \in 1..(Len(wire) - 3) :
                      /\ wire[i] = Packet("z0", a)
                      /\ wire[i + 1] = Packet("vCont;s", t)
                      /\ wire[i + 2] = Packet("Z0", a)
    /\ pc = "stepover" =>
         \A t \in hadBp \cap DOMAIN threads :
           threads[t].CurrentBreakpoint # Nil

\* C21, its case: two threads stood at a breakpoint, both were stepped over
\* it and the resume has been sent.
C21_Witness ==
    /\ pc = "running"
    /\ Cardinality(hadBp) = 2
    /\ Len(wire) = 7

\* ------------------------------------- the current breakpoint of a thread
\* ContinueOnce has left its resume loop and stands at label; the thread
\* table, which holds the threads of the stub, is one of tables.  The
\* breakpoint table holds any breakpoints, each with its trap.
Stopped(label, tables) ==
    /\ pc = label
    /\ op = "ContinueOnce"
    /\ exited = FALSE
    /\ alive = TRUE
    /\ live \in (SUBSET Tids) \ {{}}
    /\ spc \in {NormPC(f, live) : f \in [Tids -> Addrs]}
    /\ patched = {}
    /\ breakpoints \in {[a \in D |-> [Kind |-> UserBreakpoint, ID |-> a + 1]] :
                           D \in SUBSET Addrs}
    /\ breakpointIDCounter = MaxAddr + 1
    /\ internalBreakpointIDCounter = 0
    /\ traps = DOMAIN breakpoints
    /\ faults = 0
    /\ gcmdok \in BOOLEAN
    /\ threadStopInfo \in BOOLEAN
    /\ loadGInstrAddr \in BOOLEAN
    /\ isDebugserver = FALSE
    /\ threads \in tables
    /\ currentThread \in live
    /\ selectedGoroutine = NoG
    /\ detached = NoThreadObj
    /\ ctrlC = FALSE
    /\ iter = DOMAIN threads
    /\ sig = 0
    /\ tuSeen = live
    /\ tuDone = TRUE
    /\ threadID \in live
    /\ sent = TRUE
    /\ ret = NoRet
    /\ calls = 1
    /\ lastList = live
    /\ hadBp = {}
    /\ stepped = {}
    /\ requested = FALSE
    /\ before = Snapshot
    /\ bank = NoBank
    /\ wire = <<>>
    /\ frame = NoFrame
    /\ bi = [goos |-> "linux", gStructOffset |-> Minus8]
    /\ scratch = IF loadGInstrAddr THEN loadGInstr(bi).bytes ELSE <<>>

\* the thread list is refreshed and the registers of every thread are
\* loaded: setCurrentBreakpoints is about to run
InitSetCurrent ==
    Stopped("setbps",
            {[t \in live |-> [NewThread EXCEPT !.PC = spc[t],
                                               !.setbp = (t \in B)]] :
               B \in (IF threadStopInfo THEN SUBSET live ELSE {{}})})

NextSetCurrent == SetCurrentBreakpoints \/ ContinueOnceReturn

SpecSetCurrent == InitSetCurrent /\ [][NextSetCurrent]_vars

\* C22: SetCurrentBreakpoint on a thread with PC p selects the entry at
\* p - BreakpointSize if the table has one, otherwise the entry at p,
\* otherwise none; when an entry is selected the PC of the thread, in its
\* register bank and in the stub, is the address of the entry; and when the
\* write of the PC fails the thread has no current breakpoint.
C22_CurrentBreakpointSelected ==
    [][\A t \in DOMAIN threads :
         LET p == threads[t].PC
             sel == IF p - BreakpointSize \in DOMAIN breakpoints
                    THEN p - BreakpointSize
                    ELSE IF p \in DOMAIN breakpoints THEN p ELSE Nil
         IN  /\ (pc = "setbps" /\ pc' = "setbps" /\ t \in iter \ iter')
                => /\ threads'[t].CurrentBreakpoint = sel
                   /\ sel # Nil => (threads'[t].PC = sel /\ spc'[t] = sel)
             /\ (pc = "setbps" /\ pc' = "returned" /\ threads'[t] # threads[t])
                => /\ ret'.err \in {"ProtocolError", "ProtocolErrorUnsupported"}
                   /\ threads'[t].CurrentBreakpoint = Nil
                   /\ sel # Nil /\ sel # p /\ spc'[t] = p]_vars

\* C22, its case: the table has an entry at the PC of a thread and one
\* BreakpointSize before it, the PC was rewound to the earlier entry and the
\* write of the PC failed.
C22_Witness ==
    /\ pc = "returned"
    /\ ret.err = "ProtocolError"
    /\ DOMAIN breakpoints = Addrs
    /\ \E t \in DOMAIN threads :
         /\ threads[t].PC = 0
         /\ spc[t] = BreakpointSize
         /\ threads[t].CurrentBreakpoint = Nil

\* ------------------------------------------ the threads after a stop
\* the thread list is refreshed: the stop reasons are about to be queried.
\* No thread has a current breakpoint; a thread is new or has the registers
\* of the stop before.
InitStopped ==
    Stopped("stopinfo",
            {[t \in live |-> [NewThread EXCEPT !.PC = f[t]]] :
               f \in [live -> {Nil} \cup Addrs]})

NextStopped ==
    \/ ThreadStopInfo
    \/ ReloadRegisters
    \/ SetCurrentBreakpoints
    \/ ContinueOnceReturn

SpecStopped == InitStopped /\ [][NextStopped]_vars

\* C23: when ContinueOnce returns a thread, then, if qThreadStopInfo is
\* supported, only threads whose stop reason was a breakpoint have a current
\* breakpoint; if it is not supported, also when the stub stopped answering
\* it at this stop, every thread whose PC finds a breakpoint has a current
\* breakpoint, whatever its stop reason.
C23_SelectionByStopReason ==
    (pc = "returned" /\ ret.op = "ContinueOnce" /\ ret.err = "")
    => \A t \in DOMAIN threads :
         IF threadStopInfo
         THEN threads[t].CurrentBreakpoint # Nil => threads[t].setbp
         ELSE /\ FindBreakpoint(threads[t].PC) # Nil
                 => threads[t].CurrentBreakpoint # Nil
              /\ threads[t].CurrentBreakpoint # Nil
                 => threads[t].PC = threads[t].CurrentBreakpoint

\* C23, its case: the stub answered qThreadStopInfo for one thread and
\* stopped answering it for the next; both threads stand at a breakpoint
\* and both have a current breakpoint.
C23_Witness ==
    /\ pc = "returned"
    /\ ret.op = "ContinueOnce"
    /\ ret.err = ""
    /\ ~threadStopInfo
    /\ \E t, u \in DOMAIN threads :
         /\ threads[t].setbp
         /\ ~threads[u].setbp
         /\ threads[t].CurrentBreakpoint # Nil
         /\ threads[u].CurrentBreakpoint # Nil

\* ------------------------------------ the packets of reloadRegisters
\* conn.regsInfo: the registers the stub declares, in its order
DeclaredRegs == <<"rip", "rcx", "rsp">>
regnamePC == "rip"
regnameCX == "rcx"

\* the packets of readSomeRegisters (kind "read") and writeSomeRegisters
\* (kind "write") for the registers in names: one packet for the whole
\* buffer with gcmdok, one packet per named register without
transferPackets_alwaysBulk(kind, g, t, names) ==
    <<RegPacket(IF kind = "read" THEN "g" ELSE "G", t, "")>>

transferPackets(kind, g, t, names) ==
    IF g
    THEN <<RegPacket(IF kind = "read" THEN "g" ELSE "G", t, "")>>
    ELSE [i \in 1..Len(names) |->
            RegPacket(IF kind = "read" THEN "p" ELSE "P", t, names[i])]

\* what a transfer does: every packet is answered, or the k-th is answered
\* with an error and ends the transfer.  done: the registers transferred.
transfer(kind, g, t, names) ==
    LET pk == transferPackets(kind, g, t, names)
        moved(k) == IF g THEN (IF k = 1 THEN {names[i] : i \in 1..Len(names)}
                               ELSE {})
                    ELSE {names[i] : i \in 1..k}
    IN  (IF CanThread(t)
         THEN {[sent |-> pk, err |-> "", nf |-> 0, done |-> moved(Len(pk))]}
         ELSE {})
        \cup
        {[sent |-> SubSeq(pk, 1, k), err |-> e,
          nf |-> IF CanThread(t) THEN 1 ELSE 0, done |-> moved(k - 1)] :
           k \in 1..Len(pk),
           e \in IF g /\ CanThread(t) THEN registerErrors ELSE {"ProtocolError"}}

\* a deferred call is pushed: the call deferred last runs first
defer_fifo(stack, call) == Append(stack, call)

defer(stack, call) == <<call>> \o stack

Deferred(c, a) == [call |-> c, addr |-> a]

\* the variables no step inside reloadRegisters changes
Inside ==
    /\ Stay
    /\ UNCHANGED <<currentThread, selectedGoroutine, detached, exited, ctrlC,
                   breakpoints, threadStopInfo, loadGInstrAddr, isDebugserver,
                   idVars, calls, alive, live, requested, before, bank, bi,
                   scratch>>

\* the bank PC of the thread whose registers are reloaded becomes a
SetBankPC(a) == threads' = [threads EXCEPT ![frame.t].PC = a]

\* reloadRegisters is called for a thread of the loop of updateThreadList:
\* the register bank is allocated (zeroed) on first use
reloadRegistersEnter ==
    /\ pc = "reload"
    /\ frame.fn = ""
    /\ \E t \in iter :
         /\ frame' = [fn |-> "reloadRegisters", t |-> t,
                      at |-> IF gcmdok THEN "g" ELSE "p",
                      todo |-> DeclaredRegs, filled |-> {},
                      mark |-> Len(wire), g |-> "", pc0 |-> Nil, R |-> {},
                      deferred |-> <<>>, result |-> "",
                      restoreFailed |-> FALSE]
         /\ threads' = [threads EXCEPT
                          ![t].PC = IF threads[t].PC = Nil THEN 0
                                    ELSE threads[t].PC]
    /\ Inside
    /\ UNCHANGED <<gcmdok, spc, traps, patched, faults, wire>>

\* conn.readRegisters: the whole buffer is read with g; a stub that answers
\* it as unsupported clears gcmdok and the registers are read one by one
readRegisters ==
    /\ frame.fn = "reloadRegisters"
    /\ frame.at = "g"
    /\ wire' = Append(wire, RegPacket("g", frame.t, ""))
    /\ \/ /\ CanThread(frame.t)
          /\ SetBankPC(spc[frame.t])
          /\ frame' = [frame EXCEPT !.at = "loadG",
                                    !.filled = {DeclaredRegs[i] :
                                                  i \in 1..Len(DeclaredRegs)}]
          /\ UNCHANGED <<gcmdok, faults>>
       \/ /\ CanThread(frame.t) => Fits(1)
          /\ faults' = IF CanThread(frame.t) THEN faults + 1 ELSE faults
          /\ frame' = [frame EXCEPT !.at = "return",
                                    !.result = "ProtocolError"]
          /\ UNCHANGED <<gcmdok, threads>>
       \/ /\ CanThread(frame.t)
          /\ Fits(1)
          /\ faults' = faults + 1
          /\ gcmdok' = gcmdokAfterRead(gcmdok, TRUE)
          /\ frame' = [frame EXCEPT !.at = "p"]
          /\ UNCHANGED threads
    /\ Inside
    /\ UNCHANGED <<spc, traps, patched>>

\* conn.readRegister for the next declared register
readRegister ==
    /\ frame.fn = "reloadRegisters"
    /\ frame.at = "p"
    /\ LET r == Head(frame.todo)
       IN  /\ wire' = Append(wire, RegPacket("p", frame.t, r))
           /\ \/ /\ CanThread(frame.t)
                 /\ IF r = regnamePC THEN SetBankPC(spc[frame.t])
                    ELSE UNCHANGED threads
                 /\ frame' = [frame EXCEPT
                                !.todo = Tail(frame.todo),
                                !.filled = frame.filled \cup {r},
                                !.at = IF Len(frame.todo) = 1 THEN "loadG"
                                       ELSE "p"]
                 /\ UNCHANGED faults
              \/ /\ CanThread(frame.t) => Fits(1)
                 /\ faults' = IF CanThread(frame.t) THEN faults + 1 ELSE faults
                 /\ frame' = [frame EXCEPT !.at = "return",
                                           !.result = "ProtocolError"]
                 /\ UNCHANGED threads
    /\ Inside
    /\ UNCHANGED <<gcmdok, spc, traps, patched>>

\* reloadGAlloc or reloadGAtPC is entered: a blocked thread has no G to
\* load, otherwise PC and rcx are saved
reloadGEnter ==
    /\ frame.fn = "reloadRegisters"
    /\ frame.at = "loadG"
    /\ LET pc0 == threads[frame.t].PC
           R == {a \in DOMAIN breakpoints : a >= pc0 /\ a <= pc0 + MovLen}
       IN  frame' =
             IF pc0 \in BlockedAddrs
             THEN [frame EXCEPT !.at = "return", !.result = ""]
             ELSE IF loadGInstrAddr
             THEN [frame EXCEPT !.at = "setPC", !.g = "reloadGAlloc",
                                !.pc0 = pc0]
             ELSE [frame EXCEPT !.at = IF R = {} THEN "readMemory"
                                       ELSE "clearBreakpoint",
                                !.g = "reloadGAtPC", !.pc0 = pc0, !.R = R]
    /\ Inside
    /\ UNCHANGED <<threads, gcmdok, spc, traps, patched, faults, wire>>

\* reloadGAtPC: the trap of a breakpoint in [pc, pc+len(movinstr)] is
\* cleared and its reinstallation is deferred
clearBreakpoint ==
    /\ frame.fn = "reloadRegisters"
    /\ frame.at = "clearBreakpoint"
    /\ \E a \in frame.R :
         /\ wire' = Append(wire, Packet("z0", a))
         /\ \/ /\ CanBp
               /\ traps' = traps \ {a}
               /\ frame' = [frame EXCEPT
                              !.R = frame.R \ {a},
                              !.deferred = defer(frame.deferred,
                                                 Deferred("setBreakpoint", a)),
                              !.at = IF frame.R = {a} THEN "readMemory"
                                     ELSE "clearBreakpoint"]
               /\ UNCHANGED faults
            \/ /\ CanBp => Fits(1)
               /\ faults' = IF CanBp THEN faults + 1 ELSE faults
               /\ frame' = [frame EXCEPT !.at = "deferred",
                                         !.result = "ProtocolError"]
               /\ UNCHANGED traps
    /\ Inside
    /\ UNCHANGED <<threads, gcmdok, spc, patched>>

\* reloadGAtPC: the code under PC is saved
readMemory ==
    /\ frame.fn = "reloadRegisters"
    /\ frame.at = "readMemory"
    /\ wire' = Append(wire, RegPacket("m", frame.pc0, ""))
    /\ \/ /\ alive
          /\ frame' = [frame EXCEPT !.at = "writeMemory"]
          /\ UNCHANGED faults
       \/ /\ alive => Fits(1)
          /\ faults' = IF alive THEN faults + 1 ELSE faults
          /\ frame' = [frame EXCEPT !.at = "deferred",
                                    !.result = "ProtocolError"]
    /\ Inside
    /\ UNCHANGED <<threads, gcmdok, spc, traps, patched>>

\* reloadGAtPC: the MOV is written over the code under PC, and the closure
\* that puts the code and the registers back is deferred
writeMemory ==
    /\ frame.fn = "reloadRegisters"
    /\ frame.at = "writeMemory"
    /\ wire' = Append(wire, RegPacket("M", frame.pc0, "movinstr"))
    /\ \/ /\ alive
          /\ patched' = patched \cup {frame.pc0}
          /\ frame' = [frame EXCEPT
                         !.at = "step",
                         !.deferred = defer(frame.deferred,
                                            Deferred("restore", frame.pc0))]
          /\ UNCHANGED faults
       \/ /\ alive => Fits(1)
          /\ faults' = IF alive THEN faults + 1 ELSE faults
          /\ frame' = [frame EXCEPT !.at = "deferred",
                                    !.result = "ProtocolError"]
          /\ UNCHANGED patched
    /\ Inside
    /\ UNCHANGED <<threads, gcmdok, spc, traps>>

\* reloadGAlloc: PC is set to loadGInstrAddr and written to the stub, and
\* the closure that puts the registers back is deferred
setPC ==
    /\ frame.fn = "reloadRegisters"
    /\ frame.at = "setPC"
    /\ SetBankPC(Elsewhere)
    /\ \E o \in transfer("write", gcmdok, frame.t, <<regnamePC>>) :
         /\ Fits(o.nf)
         /\ faults' = faults + o.nf
         /\ wire' = wire \o o.sent
         /\ IF o.err = ""
            THEN /\ spc' = [spc EXCEPT ![frame.t] = Elsewhere]
                 /\ frame' = [frame EXCEPT
                                !.at = "step",
                                !.deferred =
                                    defer(frame.deferred,
                                          Deferred("restoreRegs", frame.pc0))]
            ELSE /\ frame' = [frame EXCEPT !.at = "return", !.result = o.err]
                 /\ UNCHANGED spc
    /\ Inside
    /\ UNCHANGED <<gcmdok, traps, patched>>

\* conn.step(t.strID, nil): the thread executes the MOV
step ==
    /\ frame.fn = "reloadRegisters"
    /\ frame.at = "step"
    /\ wire' = Append(wire, Packet("vCont;s", frame.t))
    /\ \/ /\ CanThread(frame.t)
          /\ spc' = [spc EXCEPT ![frame.t] = Elsewhere]
          /\ frame' = [frame EXCEPT !.at = "readSomeRegisters"]
          /\ UNCHANGED faults
       \/ /\ CanThread(frame.t) => Fits(1)
          /\ faults' = IF CanThread(frame.t) THEN faults + 1 ELSE faults
          /\ frame' = [frame EXCEPT !.at = "deferred",
                                    !.result = "ProtocolError"]
          /\ UNCHANGED spc
    /\ Inside
    /\ UNCHANGED <<threads, gcmdok, traps, patched>>

\* readSomeRegisters(regnamePC, regnameCX) in reloadGAtPC,
\* readSomeRegisters(regnameCX) in reloadGAlloc; then the return statement
\* fixes the value returned, before the deferred calls run
readSomeRegisters ==
    /\ frame.fn = "reloadRegisters"
    /\ frame.at = "readSomeRegisters"
    /\ \E o \in transfer("read", gcmdok, frame.t,
                         IF frame.g = "reloadGAtPC"
                         THEN <<regnamePC, regnameCX>> ELSE <<regnameCX>>) :
         /\ Fits(o.nf)
         /\ faults' = faults + o.nf
         /\ wire' = wire \o o.sent
         /\ frame' = [frame EXCEPT !.at = "deferred", !.result = o.err]
    /\ Inside
    /\ UNCHANGED <<threads, gcmdok, spc, traps, patched>>

\* the function returns and its deferred calls run, the last deferred
\* first; none of them can change the value returned.  The closure writes
\* the saved code back (reloadGAtPC), then sets PC and rcx in the bank and
\* writes them to the stub.
runDeferred ==
    /\ frame.fn = "reloadRegisters"
    /\ frame.at = "deferred"
    /\ IF frame.deferred = <<>>
       THEN /\ frame' = [frame EXCEPT !.at = "return"]
            /\ UNCHANGED <<threads, spc, traps, patched, faults, wire>>
       ELSE
       LET d == Head(frame.deferred)
           rest == Tail(frame.deferred)
       IN  IF d.call = "setBreakpoint"
           THEN /\ wire' = Append(wire, Packet("Z0", d.addr))
                /\ frame' = [frame EXCEPT !.deferred = rest]
                /\ \/ CanBp /\ traps' = traps \cup {d.addr} /\ UNCHANGED faults
                   \/ /\ CanBp => Fits(1)
                      /\ faults' = IF CanBp THEN faults + 1 ELSE faults
                      /\ UNCHANGED traps
                /\ UNCHANGED <<threads, spc, patched>>
           ELSE IF d.call = "restore"
           THEN /\ wire' = Append(wire, RegPacket("M", d.addr, "savedcode"))
                /\ \/ /\ alive
                      /\ patched' = patched \ {d.addr}
                      /\ frame' = [frame EXCEPT
                                     !.deferred =
                                         <<Deferred("restoreRegs", d.addr)>>
                                         \o rest]
                      /\ UNCHANGED faults
                   \/ /\ alive => Fits(1)
                      /\ faults' = IF alive THEN faults + 1 ELSE faults
                      /\ frame' = [frame EXCEPT
                                     !.deferred =
                                         <<Deferred("restoreRegs", d.addr)>>
                                         \o rest,
                                     !.restoreFailed = TRUE]
                      /\ UNCHANGED patched
                /\ UNCHANGED <<threads, spc, traps>>
           ELSE /\ SetBankPC(d.addr)
                /\ \E o \in transfer("write", gcmdok, frame.t,
                                     <<regnamePC, regnameCX>>) :
                     /\ Fits(o.nf)
                     /\ faults' = faults + o.nf
                     /\ wire' = wire \o o.sent
                     /\ spc' = IF regnamePC \in o.done
                               THEN [spc EXCEPT ![frame.t] = d.addr]
                               ELSE spc
                     /\ frame' = [frame EXCEPT
                                    !.deferred = rest,
                                    !.restoreFailed =
                                        frame.restoreFailed \/ o.err # ""]
                /\ UNCHANGED <<traps, patched>>
    /\ Stay
    /\ UNCHANGED <<currentThread, selectedGoroutine, detached, exited, ctrlC,
                   breakpoints, gcmdok, threadStopInfo, loadGInstrAddr,
                   isDebugserver, idVars, calls, alive, live, requested,
                   before, bank, bi, scratch>>

\* reloadRegisters returns to the loop of updateThreadList
reloadRegistersReturn ==
    /\ frame.fn = "reloadRegisters"
    /\ frame.at = "return"
    /\ frame' = NoFrame
    /\ IF frame.result # ""
       THEN /\ Done(Return(op, frame.result, Nil, TRUE, FALSE, FALSE))
            /\ UNCHANGED <<threadID, lastList>>
       ELSE /\ iter' = IF iter = {frame.t} THEN DOMAIN threads
                       ELSE iter \ {frame.t}
            /\ pc' = IF iter = {frame.t} THEN "setbps" ELSE "reload"
            /\ UNCHANGED <<op, sig, tuSeen, tuDone, threadID, sent, ret,
                           lastList, hadBp, stepped>>
    /\ UNCHANGED <<engineVars, calls, stubVars, requested, before, bank, wire,
                   bi, scratch>>

\* the registers of every thread are about to be reloaded
InitReload ==
    Stopped("reload",
            {[t \in live |-> [NewThread EXCEPT !.PC = f[t]]] :
               f \in [live -> {Nil} \cup Addrs]})

NextReload ==
    \/ reloadRegistersEnter
    \/ readRegisters
    \/ readRegister
    \/ reloadGEnter
    \/ clearBreakpoint
    \/ readMemory
    \/ writeMemory
    \/ setPC
    \/ step
    \/ readSomeRegisters
    \/ runDeferred
    \/ reloadRegistersReturn

SpecReload == InitReload /\ [][NextReload]_vars

\* the packets a step adds to the wire
NewPackets == {wire'[i] : i \in (Len(wire) + 1)..Len(wire')}

\* C24: when the stub answers the bulk read g as unsupported, the same call
\* of reloadRegisters clears gcmdok and reads every declared register with
\* one p each, so that every declared register is populated when the
\* registers have been read; once gcmdok is false it stays false, no g or G
\* packet is sent any more, and a register write sends P for the named
\* registers only.
C24_RegisterReadFallback ==
    [][/\ (gcmdok /\ ~gcmdok')
          => /\ frame.fn = "reloadRegisters" /\ frame.at = "g"
             /\ wire' = Append(wire, RegPacket("g", frame.t, ""))
             /\ frame'.fn = "reloadRegisters" /\ frame'.at = "p"
             /\ frame'.t = frame.t /\ frame'.todo = DeclaredRegs
       /\ (frame'.fn = "reloadRegisters" /\ frame'.at = "loadG")
          => /\ frame'.filled = {DeclaredRegs[i] : i \in 1..Len(DeclaredRegs)}
             /\ ~gcmdok'
                => /\ Len(wire') >= frame'.mark + Len(DeclaredRegs)
                   /\ \A i \in 1..Len(DeclaredRegs) :
                        wire'[Len(wire') - Len(DeclaredRegs) + i]
                          = RegPacket("p", frame'.t, DeclaredRegs[i])
       /\ ~gcmdok
          => /\ ~gcmdok'
             /\ \A k \in NewPackets : k.p \notin {"g", "G"}
             /\ \A k \in NewPackets :
                  k.p = "P"
                  => /\ frame.fn = "reloadRegisters"
                     /\ k.arg = frame.t
                     /\ k.reg \in IF frame.at = "setPC" THEN {regnamePC}
                                  ELSE {regnamePC, regnameCX}]_vars

\* the bulk read was answered as unsupported, the registers were read one
\* by one, G was loaded and PC and rcx were written back with P
C24_Witness ==
    /\ frame.fn = "reloadRegisters"
    /\ frame.at = "return"
    /\ frame.result = ""
    /\ ~gcmdok
    /\ ~frame.restoreFailed
    /\ Len(wire) > frame.mark + Len(DeclaredRegs) + 1
    /\ wire[frame.mark + 1].p = "g"
    /\ \A i \in 1..Len(DeclaredRegs) :
         wire[frame.mark + 1 + i] = RegPacket("p", frame.t, DeclaredRegs[i])
    /\ \E i, j \in 1..Len(wire) :
         /\ wire[i] = RegPacket("P", frame.t, regnamePC)
         /\ wire[j] = RegPacket("P", frame.t, regnameCX)

\* the place of a packet in the sequence of reloadGAtPC
rank(k) ==
    CASE k.p = "z0" -> 1
      [] k.p = "m" -> 2
      [] k.p = "M" /\ k.reg = "movinstr" -> 3
      [] k.p = "vCont;s" -> 4
      [] k.p = "M" /\ k.reg = "savedcode" -> 5
      [] k.p \in {"G", "P"} -> 6
      [] k.p = "Z0" -> 7
      [] OTHER -> 0

\* C25: in reloadGAtPC of a thread that is not blocked the stub sees the
\* clearing of the trap of every breakpoint in [PC, PC+len(movinstr)], then
\* the read of the code, the write of the MOV, the single step, the write
\* of the saved code, the write of PC and rcx, and only then the setting of
\* the cleared traps: no trap is set between the two writes of the code.
C25_ReloadGAtPCOrder ==
    (frame.fn = "reloadRegisters" /\ frame.g = "reloadGAtPC")
    => LET call == {i \in (frame.mark + 1)..Len(wire) :
                      wire[i].p \notin {"g", "p"}}
           range == {a \in DOMAIN breakpoints :
                       a >= frame.pc0 /\ a <= frame.pc0 + MovLen}
       IN  /\ \A i, j \in call :
                i < j => rank(wire[i]) <= rank(wire[j])
           /\ \A i \in call :
                wire[i].p \in {"z0", "Z0"} => wire[i].arg \in range
           /\ (frame.at = "return" /\ frame.result = "")
              => /\ \A a \in range :
                      \E i, j \in call : /\ wire[i] = Packet("z0", a)
                                         /\ wire[j] = Packet("Z0", a)
                 /\ \A r \in 2..6 : \E i \in call : rank(wire[i]) = r

\* reloadGAtPC has returned without error for a thread stopped at the
\* first of two breakpoints, both in the range of the MOV
C25_Witness ==
    /\ frame.fn = "reloadRegisters"
    /\ frame.g = "reloadGAtPC"
    /\ frame.at = "return"
    /\ frame.result = ""
    /\ frame.pc0 = 0
    /\ \E i, j \in (frame.mark + 1)..Len(wire) :
         wire[i] = Packet("Z0", 0) /\ wire[j] = Packet("Z0", MaxAddr)

\* C29: when reloadGAtPC or reloadGAlloc returns no error, every restore
\* step it performed succeeded (the write of the saved code, the write of
\* PC and rcx).
C29_RestoreFailureReported ==
    (frame.fn = "reloadRegisters" /\ frame.at = "return" /\ frame.result = "")
    => ~frame.restoreFailed

\* ------------------------------------------------------ Kill, Detach
\* Kill: [err, exited, alive, sent, nf, exitReply].  conn.kill sends k; the
\* stub kills the inferior, answers with the exit of the process, or fails.
Kill_unguarded(ex) ==
    {[err |-> "", exited |-> ex, alive |-> FALSE,
      sent |-> <<Packet("k", 0)>>, nf |-> 0, exitReply |-> FALSE]}

Kill(ex) ==
    IF ex
    THEN {[err |-> "", exited |-> TRUE, alive |-> alive, sent |-> <<>>,
           nf |-> 0, exitReply |-> FALSE]}
    ELSE {[err |-> "", exited |-> FALSE, alive |-> FALSE,
           sent |-> <<Packet("k", 0)>>, nf |-> 0, exitReply |-> FALSE],
          [err |-> "", exited |-> TRUE, alive |-> FALSE,
           sent |-> <<Packet("k", 0)>>, nf |-> 0, exitReply |-> TRUE],
          [err |-> "ProtocolError", exited |-> FALSE, alive |-> alive,
           sent |-> <<Packet("k", 0)>>, nf |-> 1, exitReply |-> FALSE]}

\* Detach(kill): the outcome of Kill when it is called, then conn.detach
\* (D) unless the engine is exited, then p.bi.Close()
Detach(kill, ex) ==
    LET killed == IF kill THEN Kill(ex)
                  ELSE {[err |-> "", exited |-> ex, alive |-> alive,
                         sent |-> <<>>, nf |-> 0, exitReply |-> FALSE]}
        after(k) ==
            IF k.err # "" THEN {k}
            ELSE IF ~k.exited
            THEN {[k EXCEPT !.sent = k.sent \o <<Packet("D", 0)>>,
                            !.err = e] : e \in {"", "CloseError"}}
                 \cup {[k EXCEPT !.sent = k.sent \o <<Packet("D", 0)>>,
                                 !.err = "ProtocolError", !.nf = k.nf + 1]}
            ELSE {[k EXCEPT !.err = e] : e \in {"", "CloseError"}}
    IN  UNION {after(k) : k \in killed}

\* an operation that ends the session is called and returns o
Ending(name, o) ==
    /\ Fits(o.nf)
    /\ faults' = faults + o.nf
    /\ exited' = o.exited
    /\ alive' = o.alive
    /\ wire' = wire \o o.sent
    /\ Simple(Return(name, o.err, Nil, o.sent # <<>>, exited, o.exitReply))

KillOp ==
    /\ pc \in Quiet
    /\ calls < MaxTableCalls
    /\ calls' = calls + 1
    /\ \E o \in Kill(exited) : Ending("Kill", o)
    /\ UNCHANGED <<tblVars, selectedGoroutine, ctrlC, breakpoints, flagVars,
                   live, spc, traps, patched, bank, frame, bi, scratch>>
    /\ requested' = FALSE
    /\ before' = Snapshot

DetachOp ==
    /\ pc \in Quiet
    /\ calls < MaxTableCalls
    /\ calls' = calls + 1
    /\ \E kill \in BOOLEAN : \E o \in Detach(kill, exited) :
         Ending("Detach", o)
    /\ UNCHANGED <<tblVars, selectedGoroutine, ctrlC, breakpoints, flagVars,
                   live, spc, traps, patched, bank, frame, bi, scratch>>
    /\ requested' = FALSE
    /\ before' = Snapshot

NextKill == KillOp \/ DetachOp

SpecKill == Init /\ [][NextKill]_vars

\* C26: on an engine that is exited Kill returns nil and sends nothing, and
\* Detach, with kill true or false, sends neither k nor D; a Kill whose k is
\* answered with the exit of the process marks the engine exited and
\* returns nil.
C26_KillDetachAfterExit ==
    [][(calls' = calls + 1 /\ ret'.op \in {"Kill", "Detach"})
       => /\ (exited /\ ret'.op = "Kill")
             => (ret'.err = "" /\ wire' = wire /\ exited')
          /\ (exited /\ ret'.op = "Detach")
             => (wire' = wire /\ exited')
          /\ (ret'.op = "Kill" /\ ret'.exitReply)
             => (~exited /\ exited' /\ ret'.err = ""
                 /\ wire' = Append(wire, Packet("k", 0)))]_vars

\* a Kill was answered with the exit of the process, and Detach was then
\* called on the exited engine
C26_Witness ==
    /\ pc = "returned"
    /\ ret.op = "Detach"
    /\ ret.wasExited
    /\ exited
    /\ calls = 2
    /\ wire = <<Packet("k", 0)>>

\* C27: between two operations the CurrentBreakpoint of a thread, when it
\* is not nil, is an entry of the breakpoint table: no thread keeps a
\* breakpoint that was cleared.
C27_CurrentBreakpointInTable ==
    pc \in Quiet
    => \A t \in DOMAIN threads :
         threads[t].CurrentBreakpoint # Nil
         => threads[t].CurrentBreakpoint \in DOMAIN breakpoints

\* ------------------------------------------------ threadUpdater.Finish
MaxFinishThreads == 3
FinishTids == 1..MaxFinishThreads

\* updateThreadList has given the thread list of the stub (not empty) to
\* tu.Add: the table holds the threads of the previous stop, one of them
\* the current thread, and the threads of the list
InitFinish ==
    /\ pc = "finish"
    /\ op = "ContinueOnce"
    /\ exited = FALSE
    /\ alive = TRUE
    /\ live \in (SUBSET FinishTids) \ {{}}
    /\ spc = [t \in FinishTids |-> 0]
    /\ patched = {}
    /\ breakpoints = [a \in {} |-> [Kind |-> UserBreakpoint, ID |-> 0]]
    /\ breakpointIDCounter = 0
    /\ internalBreakpointIDCounter = 0
    /\ traps = {}
    /\ faults = 0
    /\ gcmdok = TRUE
    /\ threadStopInfo = TRUE
    /\ loadGInstrAddr = FALSE
    /\ isDebugserver = FALSE
    /\ \E old \in (SUBSET FinishTids) \ {{}} :
         /\ threads = Add([t \in old |-> [NewThread EXCEPT !.PC = 0]], live)
         /\ currentThread \in old
    /\ selectedGoroutine \in {NoG, BoundG(currentThread)}
    /\ detached = NoThreadObj
    /\ ctrlC = FALSE
    /\ iter = {}
    /\ sig = 0
    /\ tuSeen = live
    /\ tuDone = FALSE
    /\ threadID \in live
    /\ sent = TRUE
    /\ ret = NoRet
    /\ calls = 1
    /\ lastList = live
    /\ hadBp = {}
    /\ stepped = {}
    /\ requested = FALSE
    /\ before = Snapshot
    /\ bank = NoBank
    /\ Untraced

\* tu.Finish() in updateThreadList
FinishCall ==
    /\ pc = "finish"
    /\ \E o \in Finish(threads, currentThread, tuSeen, detached) :
         /\ threads' = o.threads
         /\ currentThread' = o.currentThread
         /\ detached' = o.detached
         /\ pc' = IF o.panic THEN "panic" ELSE "finished"
    /\ tuDone' = TRUE
    /\ UNCHANGED <<selectedGoroutine, exited, ctrlC, breakpoints, flagVars,
                   op, iter, sig, tuSeen, threadID, sent, ret, calls,
                   stubVars, obsVars, sideVars>>

SpecFinish == InitFinish /\ [][FinishCall]_vars

\* C28: Finish never reads the ID of a nil currentThread, whichever
\* threads it removes and in whichever order, and after Finish the current
\* thread is in the thread table when the table is not empty.
C28_FinishKeepsCurrentThread ==
    /\ pc # "panic"
    /\ (pc = "finished" /\ DOMAIN threads # {})
       => currentThread \in DOMAIN threads

\* --------------------------------------------------- GdbserverConnect
\* GdbserverConnect has created the engine and found the executable: the
\* thread table is empty and the G-structure offset of the architecture is
\* still zero
InitConnect ==
    /\ pc = "allocMemory"
    /\ op = "GdbserverConnect"
    /\ exited = FALSE
    /\ alive = TRUE
    /\ live \in (SUBSET Tids) \ {{}}
    /\ spc \in {NormPC(f, live) : f \in [Tids -> Addrs]}
    /\ patched = {}
    /\ breakpoints = [a \in {} |-> [Kind |-> UserBreakpoint, ID |-> 0]]
    /\ breakpointIDCounter = 0
    /\ internalBreakpointIDCounter = 0
    /\ traps = {}
    /\ faults = 0
    /\ gcmdok = TRUE
    /\ threadStopInfo \in BOOLEAN
    /\ loadGInstrAddr = FALSE
    /\ isDebugserver \in BOOLEAN
    /\ threads = NoThreadObj
    /\ currentThread = Nil
    /\ selectedGoroutine = NoG
    /\ detached = NoThreadObj
    /\ ctrlC = FALSE
    /\ iter = {}
    /\ sig = 0
    /\ tuSeen = {}
    /\ tuDone = FALSE
    /\ threadID = Nil
    /\ sent = FALSE
    /\ ret = NoRet
    /\ calls = 0
    /\ lastList = {}
    /\ hadBp = {}
    /\ stepped = {}
    /\ requested = FALSE
    /\ before = Snapshot
    /\ bank = NoBank
    /\ wire = <<>>
    /\ frame = NoFrame
    /\ bi \in {[goos |-> os, gStructOffset |-> Zero64] :
                 os \in {"linux", "darwin"}}
    /\ scratch = <<>>

\* the variables GdbserverConnect leaves alone once the engine is created
Connecting ==
    UNCHANGED <<detached, exited, ctrlC, gcmdok, threadStopInfo, isDebugserver,
                op, iter, sig, tuSeen, tuDone, threadID, sent, ret, calls,
                alive, live, spc, patched, obsVars, bank, wire, frame>>

\* memory is allocated in the inferior and the MOV that loadGInstr returns
\* is written to it; when either fails loadGInstrAddr stays zero
allocMemory ==
    /\ pc = "allocMemory"
    /\ pc' = "updateThreadList"
    /\ \/ /\ ~loadGInstr(bi).panic
          /\ loadGInstrAddr' = TRUE
          /\ scratch' = loadGInstr(bi).bytes
          /\ UNCHANGED faults
       \/ /\ Fits(1)
          /\ faults' = faults + 1
          /\ UNCHANGED <<loadGInstrAddr, scratch>>
    /\ Connecting
    /\ UNCHANGED <<threads, currentThread, selectedGoroutine, breakpoints,
                   idVars, traps, bi>>

\* the first updateThreadList fills the thread table, or fails and
\* GdbserverConnect returns the error
firstUpdateThreadList ==
    /\ pc = "updateThreadList"
    /\ \/ /\ pc' = "SetGStructOffset"
          /\ threads' = [t \in live |-> [NewThread EXCEPT !.PC = spc[t]]]
          /\ currentThread' \in live
          /\ UNCHANGED faults
       \/ /\ Fits(1)
          /\ faults' = faults + 1
          /\ pc' = "failed"
          /\ UNCHANGED <<threads, currentThread>>
    /\ Connecting
    /\ UNCHANGED <<selectedGoroutine, breakpoints, idVars, loadGInstrAddr,
                   traps, bi, scratch>>

\* the offsets of the G structure the architecture can be given
GStructOffsets(os) ==
    IF os = "linux" THEN {Minus8, Minus16} ELSE {DarwinOffset}

\* the G-structure offset is configured from the version of Go and the
\* linker found in the executable, the goroutine of the current thread is
\* selected and the unrecovered-panic breakpoint is set when the function
\* exists: GdbserverConnect returns the engine
SetGStructOffset ==
    /\ pc = "SetGStructOffset"
    /\ pc' = "idle"
    /\ \E o \in GStructOffsets(bi.goos) : bi' = [bi EXCEPT !.gStructOffset = o]
    /\ selectedGoroutine' \in {NoG, BoundG(currentThread)}
    /\ \E D \in {{}, {0}} :
         /\ breakpoints' = [a \in D |-> [Kind |-> UserBreakpoint, ID |-> 0 - 1]]
         /\ traps' = D
    /\ Connecting
    /\ UNCHANGED <<threads, currentThread, idVars, loadGInstrAddr, faults,
                   scratch>>

NextConnect == allocMemory \/ firstUpdateThreadList \/ SetGStructOffset

SpecConnect == InitConnect /\ [][NextConnect]_vars

\* C30: when loadGInstrAddr is not zero, the instruction stored at
\* loadGInstrAddr is the MOV that loadGInstr returns for the G-structure
\* offset the engine is configured with.
C30_ScratchHoldsLoadGInstr ==
    (pc = "idle" /\ loadGInstrAddr) => scratch = loadGInstr(bi).bytes

====
